---------------------------- MODULE Spec2Model ----------------------------
(***************************************************************************)
(* scrollback: a scrollback buffer for the linux console.                  *)
(*                                                                         *)
(* The model follows scrollback.c: the main loop parent()/exchange(), the  *)
(* two byte interpreters terminaltoshell() and shelltoterminal(), the      *)
(* cursor position protocol knowposition()/readposition(), the circular    *)
(* buffer with erase()/newrow() and the view showscrollback().             *)
(*                                                                         *)
(* Bytes are the integers 0..255; a C string is a sequence of bytes.       *)
(***************************************************************************)
EXTENDS Integers, Sequences, FiniteSets, TLC

(***************************************************************************)
(* Bounds of the model: the screen geometry the terminal reports at        *)
(* startup, the history the buffer holds beyond one screen, and how far    *)
(* origin is followed.                                                     *)
(***************************************************************************)
ws_row == 3

ws_col == 2

HistoryCells == 6

MaxAdvance == 4

buffersize == ws_row * ws_col + HistoryCells

MaxOrigin == MaxAdvance * ws_col

\* main(): lines = winsize.ws_row / 2 when no -l option is given
lines == ws_row \div 2

\* main(): -u, the terminal is in unicode mode
singlechar == 0

(***************************************************************************)
(* Keys and escape sequences.                                              *)
(***************************************************************************)
ESCAPE == 27

BS == 8

NL == 10

FF == 12

CR == 13

DEL == 127

SEQUENCELEN == 40

POSITION_UNKNOWN == 0

POSITION_KNOWN == 1

POSITION_UNCERTAIN == 2

KEYF2 == <<27, 91, 91, 66>>

KEYF3 == <<27, 91, 91, 67>>

KEYF11 == <<27, 91, 50, 51, 126>>

KEYF12 == <<27, 91, 50, 52, 126>>

ASKPOSITION == <<27, 91, 54, 110>>

ERASECURSORDISPLAY == <<27, 91, 74>>

ERASEDISPLAY == <<27, 91, 50, 74>>

GETPOSITIONTERMINATOR == 82

MOVECURSORTERMINATOR == 72

BREAKOUTTERMINATOR == 118

\* scrollkeys(): the defaults, when the keyboard has no shift-pageup string
scrollup == KEYF11

scrolldown == KEYF12

(***************************************************************************)
(* C library: the conversions of sscanf and sprintf.                       *)
(***************************************************************************)
IsDigit(c) == c >= 48 /\ c <= 57

IsSpace(c) == c = 32 \/ (c >= 9 /\ c <= 13)

RECURSIVE SkipSpace(_, _)
SkipSpace(str, p) ==
    IF p <= Len(str) /\ IsSpace(str[p]) THEN SkipSpace(str, p + 1) ELSE p

RECURSIVE ScanDigits(_, _, _)
\* the value and the end of the digits of str from p on, acc read so far
ScanDigits(str, p, acc) ==
    IF p <= Len(str) /\ IsDigit(str[p])
    THEN ScanDigits(str, p + 1, acc * 10 + (str[p] - 48))
    ELSE [val |-> acc, pos |-> p]

\* sscanf %d: the digits start at d, after a minus sign if neg
ScanNumber(str, p, d, neg, r) ==
    IF d <= Len(str) /\ IsDigit(str[d])
    THEN [ok |-> TRUE, val |-> IF neg THEN 0 - r.val ELSE r.val, pos |-> r.pos]
    ELSE [ok |-> FALSE, val |-> 0, pos |-> p]

\* sscanf %d: the number starts at q, after the blanks
ScanSigned(str, p, q) ==
    IF q <= Len(str) /\ (str[q] = 45 \/ str[q] = 43)
    THEN ScanNumber(str, p, q + 1, str[q] = 45, ScanDigits(str, q + 1, 0))
    ELSE ScanNumber(str, p, q, FALSE, ScanDigits(str, q, 0))

\* sscanf %d at position p: blanks, an optional sign, at least one digit
ScanInt(str, p) == ScanSigned(str, p, SkipSpace(str, p))

\* a C string ends at its first zero byte
RECURSIVE CString(_)
CString(str) ==
    IF str = <<>> \/ Head(str) = 0 THEN <<>> ELSE <<Head(str)>> \o CString(Tail(str))

NoArgs == [n |-> 0, s |-> 0, y |-> 0, x |-> 0, t |-> 0]

\* "%c[%d;%d%c" from the second %d on, y the first number
ScanX(str, y, x) ==
    IF ~x.ok THEN [NoArgs EXCEPT !.n = 2, !.s = str[1], !.y = y.val]
    ELSE IF x.pos > Len(str)
    THEN [n |-> 3, s |-> str[1], y |-> y.val, x |-> x.val, t |-> 0]
    ELSE [n |-> 4, s |-> str[1], y |-> y.val, x |-> x.val, t |-> str[x.pos]]

\* "%c[%d;%d%c" from the ; on
ScanY(str, y) ==
    IF ~y.ok THEN [NoArgs EXCEPT !.n = 1, !.s = str[1]]
    ELSE IF y.pos > Len(str) \/ str[y.pos] # 59
    THEN [NoArgs EXCEPT !.n = 2, !.s = str[1], !.y = y.val]
    ELSE ScanX(str, y, ScanInt(str, y.pos + 1))

ScanString(str) ==
    IF Len(str) < 1 THEN NoArgs
    ELSE IF Len(str) < 2 \/ str[2] # 91 THEN [NoArgs EXCEPT !.n = 1, !.s = str[1]]
    ELSE ScanY(str, ScanInt(str, 3))

\* sscanf(sequence, "%c[%d;%d%c", &s, &y, &x, &t): the conversions made
Scan2Args(sequence) == ScanString(CString(sequence))

\* sscanf(linestring, "%d/%d%c", &a, &b, &t): the conversions made
ScanFractionB(str, a, b) ==
    IF ~b.ok THEN [n |-> 1, a |-> a.val, b |-> 0]
    ELSE [n |-> IF b.pos > Len(str) THEN 2 ELSE 3, a |-> a.val, b |-> b.val]

ScanFractionA(str, a) ==
    IF ~a.ok THEN [n |-> 0, a |-> 0, b |-> 0]
    ELSE IF a.pos > Len(str) \/ str[a.pos] # 47 THEN [n |-> 1, a |-> a.val, b |-> 0]
    ELSE ScanFractionB(str, a, ScanInt(str, a.pos + 1))

ScanFraction(str) == ScanFractionA(str, ScanInt(str, 1))

\* sscanf(linestring, "%d%c", &a, &t): the conversions made
ScanIntegerA(str, a) ==
    IF ~a.ok THEN [n |-> 0, a |-> 0]
    ELSE [n |-> IF a.pos > Len(str) THEN 1 ELSE 2, a |-> a.val]

ScanInteger(str) == ScanIntegerA(str, ScanInt(str, 1))

\* main(): the number of lines to scroll, from the argument of -l if it is
\* given; ok is whether the program goes on
main_lines(linestring) ==
    IF ~linestring.given THEN [ok |-> TRUE, lines |-> lines]
    ELSE LET f == ScanFraction(linestring.str)
             g == ScanInteger(linestring.str)
         IN  IF f.n = 2 /\ f.a > 0 /\ f.b > 0 /\ f.a <= f.b
             THEN [ok |-> TRUE, lines |-> (ws_row * f.a) \div f.b]
             ELSE IF g.n = 1 THEN [ok |-> TRUE, lines |-> g.a]
             ELSE [ok |-> FALSE, lines |-> 0]

RECURSIVE Decimal(_)
\* sprintf %d of a non-negative number
Decimal(n) ==
    IF n < 10 THEN <<48 + n>> ELSE Decimal(n \div 10) \o <<48 + (n % 10)>>

\* sprintf(buf, "\033[%d;%dR", y, x)
ANSWERPOSITION(y, x) == <<27, 91>> \o Decimal(y) \o <<59>> \o Decimal(x) \o <<82>>


(***************************************************************************)
(* The state of the program.                                               *)
(***************************************************************************)
VARIABLES
    buffer,           \* the scrollback buffer, buffersize characters
    origin,           \* start of region storing a copy of the screen
    show,             \* start of region that is shown when scrolling
    row, col,         \* position of the cursor
    positionstatus,   \* is the cursor position known?
    escape, sequence, \* escape sequence coming from the shell
    utf8, utf8pos, utf8len,    \* multibyte character coming from the shell
    special, specialsequence,  \* escape sequence coming from the terminal
    pc,               \* "main": in parent(); "drain": in knowposition()
    site,             \* the call of knowposition() shelltoterminal() is in
    i,                \* the loop counter of knowposition()
    sbuf,             \* block read from the shell, from the current byte on
    tin,              \* block read from the terminal in the last step
    toTerm,           \* what the last step wrote to the terminal
    toShell,          \* what the last step wrote to the shell
    intercepted,      \* sequences from the terminal the last step kept
    tty               \* the terminal: its screen, cursor and pending answers

progvars == <<buffer, origin, show, row, col, positionstatus, escape, sequence,
              utf8, utf8pos, utf8len, special, specialsequence>>

vars == <<buffer, origin, show, row, col, positionstatus, escape, sequence,
          utf8, utf8pos, utf8len, special, specialsequence,
          pc, site, i, sbuf, tin, toTerm, toShell, intercepted, tty>>

\* the program state as a record, with nothing written yet
Cur ==
    [buffer |-> buffer, origin |-> origin, show |-> show, row |-> row,
     col |-> col, positionstatus |-> positionstatus, escape |-> escape,
     sequence |-> sequence, utf8 |-> utf8, utf8pos |-> utf8pos,
     utf8len |-> utf8len, special |-> special,
     specialsequence |-> specialsequence,
     stdout |-> <<>>, master |-> <<>>, kept |-> <<>>, site |-> site,
     fopen |-> tty.fopen, system |-> tty.system, helper |-> tty.helper,
     lines |-> main_lines(tty.linestring).lines]

\* what is written to the terminal: a byte passed on from the shell, or
\* one of the strings the program itself prints
Byte(c) == [k |-> "byte", v |-> c]

Ask == [k |-> "ASKPOSITION", v |-> 0]

SaveCursor == [k |-> "SAVECURSOR", v |-> 0]

Notify == [k |-> "notify", v |-> 0]

putc(s, c) == [s EXCEPT !.stdout = Append(@, Byte(c))]

write(s, bytes) == [s EXCEPT !.master = @ \o bytes]

(***************************************************************************)
(* utf8 conversion                                                         *)
(***************************************************************************)
\* the tests of the leading bits, and the byte k of a string
IsCont(c) == c \div 64 = 2

ByteAt(u, k) == IF k <= Len(u) THEN u[k] ELSE 0

\* the failure value (u_int32_t) -1 = 0xFFFFFFFF is written -1: it is beyond
\* the integers of the model checker, and no character has that value
utf8toucs4(u) ==
    IF ByteAt(u, 1) \div 128 = 0 THEN ByteAt(u, 1)
    ELSE IF ByteAt(u, 1) \div 32 = 6 /\ IsCont(ByteAt(u, 2))
    THEN (ByteAt(u, 1) % 32) * 64 + (ByteAt(u, 2) % 64)
    ELSE IF ByteAt(u, 1) \div 16 = 14 /\ IsCont(ByteAt(u, 2)) /\ IsCont(ByteAt(u, 3))
    THEN (ByteAt(u, 1) % 16) * 4096 + (ByteAt(u, 2) % 64) * 64 + (ByteAt(u, 3) % 64)
    ELSE IF /\ ByteAt(u, 1) \div 8 = 30
            /\ IsCont(ByteAt(u, 2)) /\ IsCont(ByteAt(u, 3)) /\ IsCont(ByteAt(u, 4))
    THEN (ByteAt(u, 1) % 8) * 262144 + (ByteAt(u, 2) % 64) * 4096
         + (ByteAt(u, 3) % 64) * 64 + (ByteAt(u, 4) % 64)
    ELSE -1

\* ucs4toutf8 with two bytes up to 0x0FFF
ucs4toutf8_short(ucs4) ==
    IF 0 <= ucs4 /\ ucs4 < 128 THEN <<ucs4>>
    ELSE IF 0 <= ucs4 /\ ucs4 < 4096
    THEN <<192 + ((ucs4 \div 64) % 32), 128 + (ucs4 % 64)>>
    ELSE IF 0 <= ucs4 /\ ucs4 < 65536
    THEN <<224 + ((ucs4 \div 4096) % 16), 128 + ((ucs4 \div 64) % 64),
           128 + (ucs4 % 64)>>
    ELSE <<240 + ((ucs4 \div 262144) % 8), 128 + ((ucs4 \div 4096) % 64),
           128 + ((ucs4 \div 64) % 64), 128 + (ucs4 % 64)>>

\* the bytes stored in buf before the terminator
ucs4toutf8(ucs4) ==
    IF 0 <= ucs4 /\ ucs4 < 128 THEN <<ucs4>>
    ELSE IF 0 <= ucs4 /\ ucs4 < 2048
    THEN <<192 + ((ucs4 \div 64) % 32), 128 + (ucs4 % 64)>>
    ELSE IF 0 <= ucs4 /\ ucs4 < 65536
    THEN <<224 + ((ucs4 \div 4096) % 16), 128 + ((ucs4 \div 64) % 64),
           128 + (ucs4 % 64)>>
    ELSE <<240 + ((ucs4 \div 262144) % 8), 128 + ((ucs4 \div 4096) % 64),
           128 + ((ucs4 \div 64) % 64), 128 + (ucs4 % 64)>>

(***************************************************************************)
(* show a segment of the scrollback buffer on screen                       *)
(***************************************************************************)
\* origin, show and the indices are values of type int: INT_MAX is the
\* largest, and a sum beyond it wraps around to the negative values
INT_MAX == 2147483647

IntAdd(a, b) ==
    IF b > 0 /\ a > INT_MAX - b
    THEN (a - INT_MAX - 1) + (b - INT_MAX - 1)
    ELSE a + b

\* a % n in C for n > 0: the remainder has the sign of a
Rem(a, n) == IF a >= 0 THEN a % n ELSE 0 - ((0 - (a + n)) % n)

\* (base + j) % buffersize, the index of cell j from base in the array
ringindex(base, j) == Rem(IntAdd(base, j), buffersize)

\* can the view still go up from show? (the bar of arrows at the top)
BarUp(s) ==
    LET all == ws_row * ws_col
        rows == (buffersize - all) \div ws_col
    IN  s.show - ws_col >= 0 /\ rows > (s.origin - s.show) \div ws_col

RECURSIVE showcells_origin(_, _, _)
\* showcells reading from origin whatever show is
showcells_origin(s, j, size) ==
    IF j >= size THEN <<>>
    ELSE CString(ucs4toutf8(s.buffer[ringindex(s.origin, j)]))
             \o showcells_origin(s, j + 1, size)

RECURSIVE showcells(_, _, _)
\* the loop of showscrollback(): the cells from show + j up to show + size,
\* each as fputs() writes the string ucs4toutf8() makes of it
showcells(s, j, size) ==
    IF j >= size THEN <<>>
    ELSE CString(ucs4toutf8(s.buffer[ringindex(s.show, j)]))
             \o showcells(s, j + 1, size)

\* what is painted is one token: its kind, the position shown and the bytes
\* of the cells
showscrollback(s) ==
    IF s.show # s.origin
    THEN [s EXCEPT !.stdout =
              Append(@, [k |-> "showhistory", v |-> s.show,
                         cells |-> showcells(s, 0, (ws_row - 2) * ws_col)])]
    ELSE [s EXCEPT !.stdout =
              Append(@, [k |-> "showlive", v |-> s.show,
                         cells |-> showcells(s, 0, ws_row * ws_col)])]

(***************************************************************************)
(* save the scrollback buffer to a file                                    *)
(***************************************************************************)
RECURSIVE savecells(_, _, _, _)
\* the loop of savebuffer(): the cells from start + j on, while j is less
\* than all and than origin + size
savecells(s, start, j, all) ==
    IF j >= all \/ j >= s.origin + ws_row * ws_col THEN <<>>
    ELSE CString(ucs4toutf8(s.buffer[ringindex(start, j)]))
             \o savecells(s, start, j + 1, all)

\* the file as savebuffer() writes it, a token with its content
savefile(s) ==
    LET all == (buffersize \div ws_col) * ws_col
        size == ws_row * ws_col
        start == IF s.origin - all + size <= 0 THEN 0 ELSE s.origin - all + size
    IN  [k |-> "savefile", v |-> start, cells |-> savecells(s, start, 0, all)]

\* savebuffer going back to the live screen
savebuffer_live(s, command) ==
    showscrollback([s EXCEPT !.stdout = @ \o <<savefile(s), Notify>>,
                             !.show = s.origin])

\* command is whether savebuffer() is called with a command to run
savebuffer(s, command) ==
    IF ~s.fopen
    THEN [s EXCEPT !.stdout = Append(@, Notify)]
    ELSE IF ~command
    THEN [s EXCEPT !.stdout = @ \o <<savefile(s), Notify>>]
    ELSE showscrollback(
             [s EXCEPT !.stdout =
                  @ \o <<savefile(s), Notify, Notify,
                         [k |-> "system", v |-> 0]>>
                    \o (IF s.system = "error" THEN <<Notify>> ELSE <<>>)
                    \o (IF s.system # "ok"
                        THEN <<[k |-> "sleep", v |-> 2]>> ELSE <<>>)])

(***************************************************************************)
(* obtain the current position from an escape sequence                     *)
(***************************************************************************)
\* the tests of readposition() on the conversions a
position_ok(a, terminator) ==
    /\ a.n = 4
    /\ a.s = ESCAPE /\ a.t = terminator
    /\ ~(a.y < 1 \/ a.y > ws_row \/ a.x < 1 \/ a.x > ws_col)

\* position_set taking the numbers of the sequence as they are
position_set_onebased(s, a, terminator) ==
    IF ~position_ok(a, terminator) THEN s
    ELSE [s EXCEPT !.row = a.y,
                   !.col = a.x,
                   !.positionstatus =
                       IF a.x = ws_col /\ terminator = GETPOSITIONTERMINATOR
                       THEN POSITION_UNCERTAIN ELSE POSITION_KNOWN]

position_set(s, a, terminator) ==
    IF ~position_ok(a, terminator) THEN s
    ELSE [s EXCEPT !.row = a.y - 1,
                   !.col = a.x - 1,
                   !.positionstatus =
                       IF a.x = ws_col /\ terminator = GETPOSITIONTERMINATOR
                       THEN POSITION_UNCERTAIN ELSE POSITION_KNOWN]

\* the value readposition() returns
readposition_ok(str, terminator) == position_ok(Scan2Args(str), terminator)

\* the state readposition() leaves
readposition(s, str, terminator) == position_set(s, Scan2Args(str), terminator)

(***************************************************************************)
(* erase part of the scrollback buffer                                     *)
(***************************************************************************)
\* erase leaving the buffer as it is
erase_none(s, startrow, startcol, endcol) == s

\* erase up to the end of the row only
erase_row(s, startrow, startcol, endcol) ==
    LET start == ws_col * startrow
        cells == {ringindex(s.origin, j) :
                    j \in start + startcol .. start + endcol - 1}
    IN  [s EXCEPT !.buffer = [p \in DOMAIN s.buffer |->
                                 IF p \in cells THEN 32 ELSE s.buffer[p]]]

erase(s, startrow, startcol, endcol) ==
    LET start == ws_col * startrow
        cells == {ringindex(s.origin, j) :
                    j \in (start + startcol .. start + endcol - 1) \cup
                          (start + ws_col .. ws_row * ws_col - 1)}
    IN  [s EXCEPT !.buffer = [p \in DOMAIN s.buffer |->
                                 IF p \in cells THEN 32 ELSE s.buffer[p]]]

(***************************************************************************)
(* new row                                                                 *)
(***************************************************************************)
\* newrow taking the row after the last for a row of the screen
newrow_late(s) ==
    IF s.row < ws_row
    THEN [s EXCEPT !.row = @ + 1]
    ELSE erase([s EXCEPT !.origin = IntAdd(@, ws_col),
                         !.show = IntAdd(s.origin, ws_col)],
               ws_row - 1, 0, ws_col)

\* newrow leaving the new row as it is found
newrow_noerase(s) ==
    IF s.row < ws_row - 1
    THEN [s EXCEPT !.row = @ + 1]
    ELSE [s EXCEPT !.origin = IntAdd(@, ws_col),
                   !.show = IntAdd(s.origin, ws_col)]

newrow(s) ==
    IF s.row < ws_row - 1
    THEN [s EXCEPT !.row = @ + 1]
    ELSE erase([s EXCEPT !.origin = IntAdd(@, ws_col),
                         !.show = IntAdd(s.origin, ws_col)],
               ws_row - 1, 0, ws_col)

(***************************************************************************)
(* process a character from the terminal                                   *)
(***************************************************************************)
\* scrollup_pos without the limit of the history
scrollup_pos_nolimit(s) ==
    IF s.show - s.lines * ws_col < 0 THEN 0 ELSE s.show - s.lines * ws_col

\* the position the scrollup key moves show to
scrollup_pos(s) ==
    LET size == s.lines * ws_col
        pos0 == IF s.show - size < 0 THEN 0 ELSE s.show - size
        all == ws_row * ws_col
        rows == (buffersize - all) \div ws_col
    IN  IF s.origin - pos0 > buffersize - all
        THEN s.origin - rows * ws_col
        ELSE pos0

\* scrolldown_pos going back to the live screen from wherever show is
scrolldown_pos_live(s) == s.origin

\* the position the scrolldown key moves show to
scrolldown_pos(s) ==
    IF (s.show + s.lines * ws_col) - s.origin >= 0
    THEN s.origin
    ELSE s.show + s.lines * ws_col

\* scrollto redrawing even if the view did not move
scrollto_always(s, pos) == showscrollback([s EXCEPT !.show = pos])

\* the end of both scroll keys: redraw if the view moved
scrollto(s, pos) ==
    IF pos # s.show THEN showscrollback([s EXCEPT !.show = pos]) ELSE s

keep(s, str) == [s EXCEPT !.kept = Append(@, str)]

\* savekey whatever is shown
savekey_always(s, str, key) == str = key

\* the key that saves the buffer is taken as such only when scrolling
savekey(s, str, key) == str = key /\ s.show # s.origin

\* the escape sequence str from the terminal is complete
specialcomplete(s, str) ==
    LET size == s.lines * ws_col
    IN  IF str = scrollup
        THEN LET pos == scrollup_pos(s)
                 s1 == IF s.show = s.origin /\ pos # s.show
                       THEN [s EXCEPT !.stdout = Append(@, SaveCursor)]
                       ELSE s
             IN  scrollto(keep(s1, str), pos)
        ELSE IF str = scrolldown
        THEN IF (s.show + size) - s.origin >= 0 /\ s.show = s.origin
             THEN keep(s, str)
             ELSE scrollto(keep(s, str), scrolldown_pos(s))
        ELSE IF savekey(s, str, KEYF2)
        THEN savebuffer(keep(s, str), FALSE)
        ELSE IF savekey(s, str, KEYF3)
        THEN savebuffer(keep(s, str), TRUE)
        ELSE IF readposition_ok(str, GETPOSITIONTERMINATOR)
        THEN readposition(keep(s, str), str, GETPOSITIONTERMINATOR)
        ELSE write(s, str)

terminaltoshell(s, c, next) ==
    LET s0 == IF c = ESCAPE /\ next
              THEN [s EXCEPT !.special = 0, !.specialsequence = <<>>]
              ELSE s
        str == Append(s0.specialsequence, c)
        pending == [s0 EXCEPT !.special = @ + 1, !.specialsequence = str]
    IN  IF s0.special >= 0
        THEN IF c = 91 /\ s0.special = 1 THEN pending
             ELSE IF c = 91 /\ s0.special = 2 /\ str[2] = 91 THEN pending
             ELSE IF (c < 64 /\ c # 46 /\ c # 9) \/ c > 127 THEN pending
             ELSE specialcomplete(
                      [s0 EXCEPT !.special = -1, !.specialsequence = <<>>], str)
        ELSE write(s0, <<c>>)

RECURSIVE terminalblock(_, _)
\* exchange(): for (i = 0; i < len; i++) terminaltoshell(master, buf[i], i < len - 1)
terminalblock(s, buf) ==
    IF buf = <<>> THEN s
    ELSE terminalblock(terminaltoshell(s, Head(buf), Len(buf) > 1), Tail(buf))


(***************************************************************************)
(* make the current position known                                         *)
(***************************************************************************)
\* knowposition asking whatever the status is
knowposition_always(s, alreadyasked, where) ==
    LET s1 == IF ~alreadyasked
              THEN [s EXCEPT !.stdout = Append(@, Ask)]
              ELSE s
    IN  [s1 EXCEPT !.positionstatus = POSITION_UNKNOWN, !.site = where]

\* knowposition() up to its loop: s.site names the call that now waits,
\* "none" if the call returned at once
knowposition(s, alreadyasked, where) ==
    IF ~alreadyasked /\ s.positionstatus = POSITION_KNOWN THEN s
    ELSE LET s1 == IF ~alreadyasked
                   THEN [s EXCEPT !.stdout = Append(@, Ask)]
                   ELSE s
         IN  [s1 EXCEPT !.positionstatus = POSITION_UNKNOWN, !.site = where]

\* the loop of knowposition() without the limit on the reads
knowposition_loop_nolimit(n, status) == status = POSITION_UNKNOWN

\* for (i = 0; i < 4 && positionstatus == POSITION_UNKNOWN; i++)
knowposition_loop(n, status) == n < 4 /\ status = POSITION_UNKNOWN

(***************************************************************************)
(* process a character from the shell                                      *)
(***************************************************************************)
\* sscanf(sequence, "\033[0;%d%c", &pid, &t) == 2 && t == 'v'
breakout_pid(str, pid) ==
    pid.ok /\ pid.pos <= Len(str) /\ str[pid.pos] = BREAKOUTTERMINATOR

breakout_ok(str) ==
    /\ Len(str) >= 4
    /\ SubSeq(str, 1, 4) = <<27, 91, 48, 59>>
    /\ breakout_pid(str, ScanInt(str, 5))

\* vtrun going on without waiting for the script
vtrun_nowait(s) ==
    [s EXCEPT !.stdout = Append(@, [k |-> "vtrun", v |-> s.helper])]

\* run the script on the terminal: the fork and the end of the wait for it
vtrun(s) ==
    [s EXCEPT !.stdout = @ \o <<[k |-> "vtrun", v |-> s.helper],
                                [k |-> "waitpid", v |-> s.helper]>>]

\* after vtrun(): deletescript(1), and kill(pid, SIGTERM) if pid is not 0
breakout_kill(s, pid) ==
    IF pid # 0 THEN [s EXCEPT !.stdout = Append(@, [k |-> "kill", v |-> pid])]
    ELSE s

\* the end of a completed escape sequence
\* sequence_end with the status unknown after every sequence
sequence_end_unknown(s, str, c) ==
    [s EXCEPT !.escape = -1, !.sequence = <<>>,
              !.positionstatus = POSITION_UNKNOWN]

sequence_end(s, str, c) ==
    [s EXCEPT !.escape = -1, !.sequence = <<>>,
              !.positionstatus =
                  IF str[2] # 91 \/ (c # 75 /\ c # 109)
                  THEN POSITION_UNKNOWN ELSE @]

\* after knowposition(master, 0) for ESC[J
after_erasecursor(s, str, c) ==
    sequence_end(erase(s, s.row, s.col, ws_col), str, c)

\* the answer to ESC[6n with the column after the cursor in every case
after_askposition_next(s) ==
    [write(s, ANSWERPOSITION(s.row + 1, s.col + 1))
        EXCEPT !.escape = -1, !.sequence = <<>>]

\* after knowposition(master, 1) for ESC[6n
after_askposition(s) ==
    LET buf == ANSWERPOSITION(s.row + 1,
                              IF s.col < ws_col THEN s.col + 1 ELSE s.col)
    IN  [write(s, buf) EXCEPT !.escape = -1, !.sequence = <<>>]

\* the escape sequence str from the shell is complete, c its last byte
sequence_complete(s, str, c) ==
    IF str = ERASEDISPLAY
    THEN sequence_end(erase(s, 0, 0, ws_col), str, c)
    ELSE IF str = ERASECURSORDISPLAY
    THEN LET k == knowposition(s, FALSE, "erasecursor")
         IN  IF k.site = "none" THEN after_erasecursor(k, str, c) ELSE k
    ELSE IF str = ASKPOSITION
    THEN LET k == knowposition(s, TRUE, "askposition")
         IN  IF k.site = "none" THEN after_askposition(k) ELSE k
    ELSE IF str[Len(str)] = BREAKOUTTERMINATOR
    THEN IF breakout_ok(str)
         THEN sequence_end(breakout_kill(vtrun(s), ScanInt(str, 5).val), str, c)
         ELSE sequence_end(s, str, c)
    ELSE IF readposition_ok(str, MOVECURSORTERMINATOR)
    THEN [readposition(s, str, MOVECURSORTERMINATOR)
             EXCEPT !.escape = -1, !.sequence = <<>>]
    ELSE sequence_end(s, str, c)

\* update_buffer without the new row at the right margin
update_buffer_nowrap(s, c, w) ==
    LET pos == ringindex(s.origin, s.row * ws_col + s.col)
    IN  IF (c = BS \/ c = DEL) /\ s.col > 0
        THEN [s EXCEPT !.col = @ - 1,
                       !.buffer[Rem(buffersize + pos - 1, buffersize)] = 32]
        ELSE IF c = NL \/ c = FF THEN newrow(s)
        ELSE IF c = CR THEN [s EXCEPT !.col = 0]
        ELSE [s EXCEPT !.buffer[pos] = w, !.col = @ + 1]

\* the update of the scrollback buffer for byte c, character w
update_buffer(s, c, w) ==
    LET pos == ringindex(s.origin, s.row * ws_col + s.col)
    IN  IF (c = BS \/ c = DEL) /\ s.col > 0
        THEN [s EXCEPT !.col = @ - 1,
                       !.buffer[Rem(buffersize + pos - 1, buffersize)] = 32]
        ELSE IF c = NL \/ c = FF THEN newrow(s)
        ELSE IF c = CR THEN [s EXCEPT !.col = 0]
        ELSE LET s1 == IF s.col >= ws_col THEN newrow([s EXCEPT !.col = 0]) ELSE s
             IN  [s1 EXCEPT !.buffer[pos] = w, !.col = @ + 1]

\* after knowposition(master, 0) for a character to print
\* no_lead taking every continuation byte as one of a character
no_lead_never(s) == FALSE

\* utf8pos == 0 || utf8len == 0: no character is open for a continuation
\* byte
no_lead(s) == s.utf8pos = 0 \/ s.utf8len = 0

after_print(s0, c) ==
    LET s == putc(s0, c)
    IN  IF c \div 128 = 0 \/ singlechar # 0
        THEN update_buffer([s EXCEPT !.utf8pos = 0, !.utf8 = <<>>], c, c)
        ELSE IF s.utf8pos >= SEQUENCELEN - 1
        THEN update_buffer([s EXCEPT !.utf8pos = 0, !.utf8 = <<>>, !.utf8len = 0],
                           95, 95)
        ELSE IF c \div 64 = 3
        THEN LET len == IF c \div 32 = 6 THEN 1
                        ELSE IF c \div 16 = 14 THEN 2
                        ELSE IF c \div 8 = 30 THEN 3 ELSE 0
                 s1 == [s EXCEPT !.utf8len = len, !.utf8pos = 1, !.utf8 = <<c>>]
             IN  IF len # 0 THEN s1 ELSE update_buffer(s1, c, utf8toucs4(<<c>>))
        ELSE IF no_lead(s) THEN s
        ELSE LET s1 == [s EXCEPT !.utf8 = Append(@, c), !.utf8pos = @ + 1,
                                 !.utf8len = @ - 1]
             IN  IF s1.utf8len # 0 THEN s1
                 ELSE update_buffer(s1, c, utf8toucs4(s1.utf8))

\* a control character that is not passed to the terminal
control_kept(s, c) ==
    [s EXCEPT !.escape = -1, !.sequence = <<>>,
              !.positionstatus = IF c # 14 /\ c # 15 THEN POSITION_UNKNOWN ELSE @,
              !.utf8pos = 0, !.utf8 = <<>>]

\* a control character other than ESC, BS, NL, FF and CR
control(s, c) ==
    [putc(s, c) EXCEPT !.escape = -1, !.sequence = <<>>,
                       !.positionstatus =
                           IF c # 14 /\ c # 15 THEN POSITION_UNKNOWN ELSE @,
                       !.utf8pos = 0, !.utf8 = <<>>]

\* sequence_full finding room in sequence however long it is
sequence_full_never(e) == FALSE

\* escape >= SEQUENCELEN - 1: no room is left in sequence for the byte
sequence_full(e) == e >= SEQUENCELEN - 1

\* shelltoterminal() up to its return or to the loop of knowposition()
shelltoterminal(sin, c) ==
    LET s == IF sin.show # sin.origin
             THEN showscrollback([sin EXCEPT !.show = sin.origin])
             ELSE sin
    IN  IF c <= 31 /\ c # ESCAPE /\ c # BS /\ c # NL /\ c # FF /\ c # CR
        THEN control(s, c)
        ELSE IF s.escape >= 0 \/ c = ESCAPE
        THEN LET e == IF s.escape = -1 THEN 0 ELSE s.escape
                 s1 == putc(s, c)
                 str == Append(s.sequence, c)
                 s2 == [s1 EXCEPT !.escape = e + 1, !.sequence = str]
                 c2 == IF e = 1 /\ c = 56 THEN 65 ELSE c
             IN  IF sequence_full(e)
                 THEN [s1 EXCEPT !.escape = -1, !.sequence = <<>>,
                                 !.positionstatus = POSITION_UNKNOWN]
                 ELSE IF e = 1 /\ (c = 91 \/ c = 93) THEN s2
                 ELSE IF \/ c2 < 48
                         \/ (c2 < 64 /\ (str[2] = 91 \/ str[2] = 93))
                         \/ c2 > 127
                 THEN s2
                 ELSE sequence_complete(s2, str, c2)
        ELSE LET k == IF s.utf8len = 0 THEN knowposition(s, FALSE, "print") ELSE s
             IN  IF k.site = "none" THEN after_print(k, c) ELSE k

\* shelltoterminal() from the return of knowposition() on
shelltoterminal_resume(s0, c) ==
    LET s == [s0 EXCEPT !.site = "none"]
    IN  IF s0.site = "erasecursor" THEN after_erasecursor(s, s.sequence, c)
        ELSE IF s0.site = "askposition" THEN after_askposition(s)
        ELSE after_print(s, c)


(***************************************************************************)
(* What the terminal and the shell send.                                   *)
(***************************************************************************)
\* the answer of a terminal to ESC[6n
Reply(y, x) == ANSWERPOSITION(y, x)

MaxSpecial == 3

\* the scroll keys and the answers of a terminal
ScrollTerm == {KEYF11, KEYF12, Reply(1, 1), Reply(ws_row, ws_col)}

\* a shell that prints blanks and newlines
ScrollShell == {<<32>>, <<NL>>}

\* a terminal that also sends a key, ESC alone, a sequence cut by the end of
\* the block, and an answer that is out of the screen
KeysTerm ==
    {KEYF11, KEYF12, <<97>>, <<27>>, <<27, 91>>,
     Reply(1, 1), Reply(ws_row, ws_col), Reply(ws_row + 1, 1)}

NewlineShell == {<<NL>>}

AnswerTerm == {KEYF11, Reply(1, 1), Reply(ws_row, ws_col)}

\* a shell that sends bytes of every class: printable, newline, carriage
\* return, control, the first byte of a multibyte character, sequences
OutputShell ==
    {<<32>>, <<NL>>, <<CR>>, <<7>>, <<195>>,
     ERASEDISPLAY, ERASECURSORDISPLAY, ASKPOSITION}

(***************************************************************************)
(* parent: main loop                                                       *)
(***************************************************************************)
\* the terminal the program runs in, a Linux virtual terminal: its screen, its
\* cursor, whether the next character wraps to the next line, the escape
\* sequence it is in, its answer on the way to the program, and the number
\* of blocks the shell has sent; off is the rows that left the screen at the top,
\* the oldest first.  With it is what the program finds on its descriptors:
\* stdin and master are open, at the end of the stream or in error, intr is a
\* signal that interrupts select(), and bad counts the calls of exchange()
\* where select() or read() failed or read() returned 0; fopen is whether
\* the file of savebuffer() can be created, system what becomes of the
\* command savebuffer() runs: it runs, system() fails, or it is not found;
\* helper is the exit status of the script vtrun() runs; linestring is the
\* argument of the option -l, if it is given
TtyInit ==
    [screen |-> [p \in 0 .. ws_row * ws_col - 1 |-> 32],
     y |-> 0, x |-> 0, need_wrap |-> FALSE, state |-> "normal", par |-> 0,
     answer |-> <<>>, n |-> 0, off |-> <<>>,
     stdin |-> "open", master |-> "open", intr |-> FALSE, bad |-> 0,
     fopen |-> TRUE, system |-> "ok", helper |-> 0,
     linestring |-> [given |-> FALSE, str |-> <<>>]]

\* line feed: the cursor goes down, the screen scrolls if it is at the bottom
tty_lf(t) ==
    IF t.y < ws_row - 1
    THEN [t EXCEPT !.y = @ + 1, !.need_wrap = FALSE]
    ELSE [t EXCEPT !.need_wrap = FALSE,
                   !.off = @ \o [j \in 1 .. ws_col |-> t.screen[j - 1]],
                   !.screen = [p \in 0 .. ws_row * ws_col - 1 |->
                                  IF p + ws_col < ws_row * ws_col
                                  THEN t.screen[p + ws_col] ELSE 32]]

tty_cr(t) == [t EXCEPT !.x = 0, !.need_wrap = FALSE]

\* a character: it goes where the cursor is, after the wrap that is pending
tty_print(t0, c) ==
    LET t == IF t0.need_wrap THEN tty_lf(tty_cr(t0)) ELSE t0
    IN  IF t.x = ws_col - 1
        THEN [t EXCEPT !.screen[t.y * ws_col + t.x] = c, !.need_wrap = TRUE]
        ELSE [t EXCEPT !.screen[t.y * ws_col + t.x] = c, !.x = @ + 1]

\* ESC [ J and ESC [ 2 J
tty_erase(t) ==
    LET from == IF t.par = 2 THEN 0 ELSE t.y * ws_col + t.x
    IN  [t EXCEPT !.screen = [p \in 0 .. ws_row * ws_col - 1 |->
                                 IF p >= from /\ t.par \in {0, 2}
                                 THEN 32 ELSE t.screen[p]],
                  !.need_wrap = FALSE, !.state = "normal"]

tty_byte(t, c) ==
    IF t.state = "esc"
    THEN IF c = 91 THEN [t EXCEPT !.state = "csi", !.par = 0]
         ELSE [t EXCEPT !.state = "normal"]
    ELSE IF t.state = "csi"
    THEN IF IsDigit(c) THEN [t EXCEPT !.par = (@ * 10 + (c - 48)) % 100]
         ELSE IF c = 74 THEN tty_erase(t)
         ELSE [t EXCEPT !.state = "normal"]
    ELSE IF c = ESCAPE THEN [t EXCEPT !.state = "esc"]
    ELSE IF c = NL THEN tty_lf(t)
    ELSE IF c = CR THEN tty_cr(t)
    ELSE IF c >= 32 /\ c # DEL THEN tty_print(t, c)
    ELSE t

\* what the program writes reaches the terminal: the bytes of the shell, and
\* ESC [ 6 n, answered with the position of the cursor
tty_token(t, x) ==
    IF x.k = "byte" THEN tty_byte(t, x.v)
    ELSE IF x.k = "ASKPOSITION"
    THEN [t EXCEPT !.answer = ANSWERPOSITION(t.y + 1, t.x + 1)]
    ELSE t

RECURSIVE tty_write(_, _)
tty_write(t, out) ==
    IF out = <<>> THEN t ELSE tty_write(tty_token(t, Head(out)), Tail(out))

Init ==
    /\ buffer = [p \in 0 .. buffersize - 1 |-> 32]
    /\ origin = 0
    /\ show = 0
    /\ row = 0
    /\ col = 0
    /\ positionstatus = POSITION_UNKNOWN
    /\ escape = -1
    /\ sequence = <<>>
    /\ utf8 = <<>>
    /\ utf8pos = 0
    /\ utf8len = 0
    /\ special = -1
    /\ specialsequence = <<>>
    /\ pc = "main"
    /\ site = "none"
    /\ i = 0
    /\ sbuf = <<>>
    /\ tin = <<>>
    /\ toTerm = <<>>
    /\ toShell = <<>>
    /\ intercepted = <<>>
    /\ tty = TtyInit

\* the program state after a step, and what the step wrote
Commit(s) ==
    /\ buffer' = s.buffer
    /\ origin' = s.origin
    /\ show' = s.show
    /\ row' = s.row
    /\ col' = s.col
    /\ positionstatus' = s.positionstatus
    /\ escape' = s.escape
    /\ sequence' = s.sequence
    /\ utf8' = s.utf8
    /\ utf8pos' = s.utf8pos
    /\ utf8len' = s.utf8len
    /\ special' = s.special
    /\ specialsequence' = s.specialsequence
    /\ site' = s.site
    /\ pc' = IF s.site = "none" THEN "main" ELSE "drain"
    /\ toTerm' = s.stdout
    /\ toShell' = s.master
    /\ intercepted' = s.kept

\* exchange(master, 1, NULL): a block from the terminal
ExchangeTerminal(b) ==
    /\ pc = "main"
    /\ sbuf = <<>>
    /\ LET s == terminalblock(Cur, b)
       IN  /\ s.special <= MaxSpecial
           /\ Commit(s)
    /\ tin' = b
    /\ UNCHANGED <<i, sbuf, tty>>

\* exchange(master, 1, NULL): a block from the shell is read
ExchangeShell(b) ==
    /\ pc = "main"
    /\ sbuf = <<>>
    /\ sbuf' = b
    /\ tin' = <<>>
    /\ toTerm' = <<>>
    /\ toShell' = <<>>
    /\ intercepted' = <<>>
    /\ UNCHANGED <<progvars, pc, site, i, tty>>

\* exchange(): shelltoterminal(master, buf[i]) for the next byte of the block;
\* origin is followed up to MaxOrigin: a byte is not taken up if the row it
\* may add goes past it
ShellToTerminal ==
    /\ pc = "main"
    /\ sbuf # <<>>
    /\ LET s == shelltoterminal(Cur, Head(sbuf))
       IN  /\ s.origin + (IF s.site = "none" THEN 0 ELSE ws_col) <= MaxOrigin
           /\ Commit(s)
           /\ sbuf' = IF s.site = "none" THEN Tail(sbuf) ELSE sbuf
    /\ i' = 0
    /\ tin' = <<>>
    /\ UNCHANGED tty

\* DrainTerminal reading the shell as well as the terminal
DrainTerminal_shell(b) ==
    /\ pc = "drain"
    /\ knowposition_loop(i, positionstatus)
    /\ LET s == shelltoterminal(terminalblock(Cur, b), Head(sbuf))
       IN  /\ s.special <= MaxSpecial
           /\ Commit(s)
    /\ i' = i + 1
    /\ tin' = b
    /\ UNCHANGED <<sbuf, tty>>

\* knowposition(): exchange(master, 0, &tv) reads a block from the terminal
DrainTerminal(b) ==
    /\ pc = "drain"
    /\ knowposition_loop(i, positionstatus)
    /\ LET s == terminalblock(Cur, b)
       IN  /\ s.special <= MaxSpecial
           /\ Commit(s)
    /\ i' = i + 1
    /\ tin' = b
    /\ UNCHANGED <<sbuf, tty>>

\* knowposition(): exchange(master, 0, &tv) times out
DrainTimeout ==
    /\ pc = "drain"
    /\ knowposition_loop(i, positionstatus)
    /\ i' = i + 1
    /\ tin' = <<>>
    /\ toTerm' = <<>>
    /\ toShell' = <<>>
    /\ intercepted' = <<>>
    /\ UNCHANGED <<progvars, pc, site, sbuf, tty>>

\* knowposition() returns and shelltoterminal() goes on
KnowReturn ==
    /\ pc = "drain"
    /\ ~knowposition_loop(i, positionstatus)
    /\ Commit(shelltoterminal_resume(Cur, Head(sbuf)))
    /\ sbuf' = Tail(sbuf)
    /\ i' = 0
    /\ tin' = <<>>
    /\ UNCHANGED tty

\* the main loop with a terminal sending the blocks TB and a shell the blocks SB
Exchange(TB, SB) ==
    \/ \E b \in TB : ExchangeTerminal(b)
    \/ \E b \in SB : ExchangeShell(b)
    \/ ShellToTerminal
    \/ \E b \in TB : DrainTerminal(b)
    \/ DrainTimeout
    \/ KnowReturn

Next == Exchange(ScrollTerm, ScrollShell)

Spec == Init /\ [][Next]_vars

\* select() returns when its timeout expires, if not before, and
\* knowposition() returns when its loop ends
SpecFair == Spec /\ WF_vars(DrainTimeout) /\ WF_vars(KnowReturn)

NextIn == Exchange(KeysTerm, NewlineShell)

SpecIn == Init /\ [][NextIn]_vars

NextOut == Exchange(AnswerTerm, OutputShell)

SpecOut == Init /\ [][NextOut]_vars

(***************************************************************************)
(* The program between a shell that prints on less than a screen and a     *)
(* terminal that answers ESC [ 6 n at once.                                *)
(***************************************************************************)
MaxBlocks == 5

PrintShell == {<<97>>, <<98>>, <<NL>>, <<CR>>, ERASEDISPLAY, ERASECURSORDISPLAY}

\* exchange(master, 1, NULL): a block from the shell is read
RefShell(b) ==
    /\ pc = "main"
    /\ sbuf = <<>>
    /\ tty.n < MaxBlocks
    /\ sbuf' = b
    /\ tty' = [tty EXCEPT !.n = @ + 1]
    /\ tin' = <<>>
    /\ toTerm' = <<>>
    /\ toShell' = <<>>
    /\ intercepted' = <<>>
    /\ UNCHANGED <<progvars, pc, site, i>>

\* exchange(): shelltoterminal(master, buf[i]) for the next byte of the block
RefShellToTerminal ==
    /\ pc = "main"
    /\ sbuf # <<>>
    /\ LET s == shelltoterminal(Cur, Head(sbuf))
       IN  /\ Commit(s)
           /\ sbuf' = IF s.site = "none" THEN Tail(sbuf) ELSE sbuf
           /\ tty' = tty_write(tty, s.stdout)
    /\ i' = 0
    /\ tin' = <<>>

\* knowposition(): exchange(master, 0, &tv) reads the answer of the terminal
RefAnswer ==
    /\ pc = "drain"
    /\ knowposition_loop(i, positionstatus)
    /\ tty.answer # <<>>
    /\ Commit(terminalblock(Cur, tty.answer))
    /\ i' = i + 1
    /\ tin' = tty.answer
    /\ tty' = [tty EXCEPT !.answer = <<>>]
    /\ UNCHANGED sbuf

\* knowposition() returns and shelltoterminal() goes on
RefReturn ==
    /\ pc = "drain"
    /\ ~knowposition_loop(i, positionstatus)
    /\ LET s == shelltoterminal_resume(Cur, Head(sbuf))
       IN  /\ Commit(s)
           /\ tty' = tty_write(tty, s.stdout)
    /\ sbuf' = Tail(sbuf)
    /\ i' = 0
    /\ tin' = <<>>

NextRef ==
    \/ \E b \in PrintShell : RefShell(b)
    \/ RefShellToTerminal
    \/ RefAnswer
    \/ RefReturn

SpecRef == Init /\ [][NextRef]_vars

(***************************************************************************)
(* The same with a user who presses the scroll keys, whether the program   *)
(* is in its main loop or waiting for the answer of the terminal.          *)
(***************************************************************************)
ViewShell == {<<97, NL>>, <<98>>, <<NL, NL>>}

ViewKeys == {scrollup, scrolldown}

NextView ==
    \/ \E b \in ViewShell : RefShell(b)
    \/ RefShellToTerminal
    \/ RefAnswer
    \/ RefReturn
    \/ \E b \in ViewKeys : ExchangeTerminal(b)
    \/ \E b \in ViewKeys : DrainTerminal(b)

SpecView == Init /\ [][NextView]_vars

(***************************************************************************)
(* The same with a shell that only prints characters, one more than a      *)
(* screen and a row of them.                                               *)
(***************************************************************************)
FillShell == {<<97>>, <<98>>}

MaxFill == ws_row * ws_col + ws_col + 1

\* exchange(master, 1, NULL): a character from the shell is read
FillRead(b) ==
    /\ pc = "main"
    /\ sbuf = <<>>
    /\ tty.n < MaxFill
    /\ sbuf' = b
    /\ tty' = [tty EXCEPT !.n = @ + 1]
    /\ tin' = <<>>
    /\ toTerm' = <<>>
    /\ toShell' = <<>>
    /\ intercepted' = <<>>
    /\ UNCHANGED <<progvars, pc, site, i>>

NextFill ==
    \/ \E b \in FillShell : FillRead(b)
    \/ RefShellToTerminal
    \/ RefAnswer
    \/ RefReturn

SpecFill == Init /\ [][NextFill]_vars

(***************************************************************************)
(* The two conversions on their own: a character in the first cell of the  *)
(* buffer is converted to utf8 as showscrollback() does, and the bytes are *)
(* converted back as shelltoterminal() does, into the second cell.         *)
(***************************************************************************)
\* the basic multilingual plane, and beyond it the first character, the
\* last, 0x10FFFF, and one every 4099 in between
CodecInputs ==
    0 .. 65535 \cup {65536 + 4099 * k : k \in 0 .. 255} \cup {1114111}

InitCodec ==
    /\ \E c \in CodecInputs :
           buffer = [p \in 0 .. buffersize - 1 |-> IF p = 0 THEN c ELSE 32]
    /\ origin = 0
    /\ show = 0
    /\ row = 0
    /\ col = 0
    /\ positionstatus = POSITION_UNKNOWN
    /\ escape = -1
    /\ sequence = <<>>
    /\ utf8 = <<>>
    /\ utf8pos = 0
    /\ utf8len = 0
    /\ special = -1
    /\ specialsequence = <<>>
    /\ pc = "codec"
    /\ site = "none"
    /\ i = 0
    /\ sbuf = <<>>
    /\ tin = <<>>
    /\ toTerm = <<>>
    /\ toShell = <<>>
    /\ intercepted = <<>>
    /\ tty = TtyInit

\* showscrollback(): ucs4toutf8(c, buf)
CodecEncode ==
    /\ pc = "codec"
    /\ i = 0
    /\ utf8' = ucs4toutf8(buffer[0])
    /\ i' = 1
    /\ UNCHANGED <<buffer, origin, show, row, col, positionstatus, escape,
                   sequence, utf8pos, utf8len, special, specialsequence, pc,
                   site, sbuf, tin, toTerm, toShell, intercepted, tty>>

\* shelltoterminal(): w = utf8toucs4(utf8)
CodecDecode ==
    /\ pc = "codec"
    /\ i = 1
    /\ buffer' = [buffer EXCEPT ![1] = utf8toucs4(utf8)]
    /\ i' = 2
    /\ UNCHANGED <<origin, show, row, col, positionstatus, escape, sequence,
                   utf8, utf8pos, utf8len, special, specialsequence, pc, site,
                   sbuf, tin, toTerm, toShell, intercepted, tty>>

NextCodec == CodecEncode \/ CodecDecode

SpecCodec == InitCodec /\ [][NextCodec]_vars

(***************************************************************************)
(* The main loop when the descriptors come to an end: the terminal or the  *)
(* shell closes or fails, or a signal interrupts select().                 *)
(***************************************************************************)
MaxBad == 3

\* stdin or master comes to the end of the stream, or to an error
Close(fd, how) ==
    /\ pc # "exit"
    /\ tty[fd] = "open"
    /\ tty' = [tty EXCEPT ![fd] = how]
    /\ UNCHANGED <<progvars, pc, site, i, sbuf, tin, toTerm, toShell,
                   intercepted>>

\* a signal arrives
Interrupt ==
    /\ pc # "exit"
    /\ ~tty.intr
    /\ tty' = [tty EXCEPT !.intr = TRUE]
    /\ UNCHANGED <<progvars, pc, site, i, sbuf, tin, toTerm, toShell,
                   intercepted>>

\* exchange(master, 1, NULL) returns -1, from select() or from a read(), and
\* the loop of parent() ends
ExchangeFail ==
    /\ pc = "main"
    /\ sbuf = <<>>
    /\ tty.intr \/ tty.stdin = "error" \/ tty.master = "error"
    /\ tty.bad < MaxBad
    /\ pc' = "exit"
    /\ tty' = [tty EXCEPT !.intr = FALSE, !.bad = @ + 1]
    /\ tin' = <<>>
    /\ toTerm' = <<>>
    /\ toShell' = <<>>
    /\ intercepted' = <<>>
    /\ UNCHANGED <<progvars, site, i, sbuf>>

\* exchange(master, 1, NULL): a read() returns 0, the loops over the bytes do
\* nothing and exchange() returns 0
ExchangeZero ==
    /\ pc = "main"
    /\ sbuf = <<>>
    /\ ~tty.intr /\ tty.stdin # "error" /\ tty.master # "error"
    /\ tty.stdin = "eof" \/ tty.master = "eof"
    /\ tty.bad < MaxBad
    /\ tty' = [tty EXCEPT !.bad = @ + 1]
    /\ tin' = <<>>
    /\ toTerm' = <<>>
    /\ toShell' = <<>>
    /\ intercepted' = <<>>
    /\ UNCHANGED <<progvars, pc, site, i, sbuf>>

\* knowposition(): exchange(master, 0, &tv) returns -1, or 0 after a read()
\* of 0 bytes from stdin; the value is not looked at
DrainBad ==
    /\ pc = "drain"
    /\ knowposition_loop(i, positionstatus)
    /\ tty.intr \/ tty.stdin # "open"
    /\ tty.bad < MaxBad
    /\ i' = i + 1
    /\ tty' = [tty EXCEPT !.intr = FALSE, !.bad = @ + 1]
    /\ tin' = <<>>
    /\ toTerm' = <<>>
    /\ toShell' = <<>>
    /\ intercepted' = <<>>
    /\ UNCHANGED <<progvars, pc, site, sbuf>>

NextEnd ==
    \/ \E fd \in {"stdin", "master"} : \E how \in {"eof", "error"} : Close(fd, how)
    \/ Interrupt
    \/ ExchangeFail
    \/ ExchangeZero
    \/ DrainBad
    \/ \E b \in ScrollTerm : tty.stdin = "open" /\ ~tty.intr /\ ExchangeTerminal(b)
    \/ \E b \in ScrollShell : tty.master = "open" /\ ~tty.intr /\ ExchangeShell(b)
    \/ ShellToTerminal
    \/ \E b \in ScrollTerm : tty.stdin = "open" /\ ~tty.intr /\ DrainTerminal(b)
    \/ tty.stdin = "open" /\ ~tty.intr /\ DrainTimeout
    \/ KnowReturn

SpecEnd == Init /\ [][NextEnd]_vars

(***************************************************************************)
(* The main loop with a terminal that also sends an escape character       *)
(* followed by digits, as many as it likes.                                *)
(***************************************************************************)
LongTerm == {<<27, 48>>, <<48>>, <<48, 48, 48, 48, 48, 48, 48, 48>>}

\* exchange(master, 1, NULL): a block from the terminal; the sequence from
\* the terminal is followed up to the first byte stored past the end of
\* specialsequence
LongTerminal(b) ==
    /\ pc = "main"
    /\ sbuf = <<>>
    /\ special <= SEQUENCELEN
    /\ LET s == terminalblock(Cur, b)
       IN  /\ s.special <= SEQUENCELEN + 1
           /\ Commit(s)
    /\ tin' = b
    /\ UNCHANGED <<i, sbuf, tty>>

NextLong ==
    \/ \E b \in LongTerm : LongTerminal(b)
    \/ Exchange(ScrollTerm, ScrollShell)

SpecLong == Init /\ [][NextLong]_vars

(***************************************************************************)
(* The main loop with a shell that prints a character and the sequences    *)
(* the program acts on: ESC[2J, ESC[J, ESC[6n, ESC[2;1H and ESC[0;0v, in   *)
(* MaxBlocks blocks, and a terminal that sends an answer or none when the  *)
(* program waits for one.                                                  *)
(***************************************************************************)
SeqShell ==
    {<<97>>, ERASEDISPLAY, ERASECURSORDISPLAY, ASKPOSITION,
     <<27, 91, 50, 59, 49, 72>>, <<27, 91, 48, 59, 48, 118>>}

SeqTerm == {Reply(1, 1), Reply(ws_row, ws_col)}

NextSeq ==
    \/ \E b \in SeqShell : RefShell(b)
    \/ ShellToTerminal
    \/ \E b \in SeqTerm : DrainTerminal(b)
    \/ DrainTimeout
    \/ KnowReturn

SpecSeq == Init /\ [][NextSeq]_vars

(***************************************************************************)
(* The main loop with a user who presses the keys that scroll and the keys *)
(* that save.                                                              *)
(***************************************************************************)
SaveTerm == {KEYF2, KEYF3, KEYF11, KEYF12, Reply(1, 1)}

NextSave == Exchange(SaveTerm, ScrollShell)

SpecSave == Init /\ [][NextSave]_vars

(***************************************************************************)
(* The same when the file cannot always be created and the command does    *)
(* not always run.                                                         *)
(***************************************************************************)
\* the directory of the file, or the command, comes or goes
FileSystem(f, r) ==
    /\ <<f, r>> # <<tty.fopen, tty.system>>
    /\ tty' = [tty EXCEPT !.fopen = f, !.system = r]
    /\ tin' = <<>>
    /\ toTerm' = <<>>
    /\ toShell' = <<>>
    /\ intercepted' = <<>>
    /\ UNCHANGED <<progvars, pc, site, i, sbuf>>

NextSaveFail ==
    \/ \E f \in BOOLEAN : \E r \in {"ok", "error", "notfound"} : FileSystem(f, r)
    \/ Exchange(SaveTerm, ScrollShell)

SpecSaveFail == Init /\ [][NextSaveFail]_vars

(***************************************************************************)
(* The main loop with a shell that sends the breakout sequence in two      *)
(* reads, and a user who scrolls.                                          *)
(***************************************************************************)
BreakShell == {<<NL>>, <<27, 91, 48, 59, 55>>, <<118>>}

BreakTerm == {Reply(ws_row, ws_col)}

\* the script vtrun() is to run is another, with another exit status
Helper(r) ==
    /\ pc = "main"
    /\ sbuf = <<>>
    /\ r # tty.helper
    /\ tty' = [tty EXCEPT !.helper = r]
    /\ tin' = <<>>
    /\ toTerm' = <<>>
    /\ toShell' = <<>>
    /\ intercepted' = <<>>
    /\ UNCHANGED <<progvars, pc, site, i, sbuf>>

NextBreak ==
    \/ \E r \in {0, 1} : Helper(r)
    \/ \E b \in BreakShell : RefShell(b)
    \/ ShellToTerminal
    \/ \E b \in ViewKeys : ExchangeTerminal(b)
    \/ \E b \in BreakTerm : DrainTerminal(b)
    \/ DrainTimeout
    \/ KnowReturn

SpecBreak == Init /\ [][NextBreak]_vars

(***************************************************************************)
(* The program after the shell has printed so many rows that origin is     *)
(* one row short of the largest where the sums an index is made of are    *)
(* all within an int: the cursor is in the last row, the screen is blank.  *)
(***************************************************************************)
OriginHigh == ((INT_MAX - ws_row * ws_col) \div ws_col - 1) * ws_col

WideShell == {<<97>>, <<98>>, <<NL>>}

InitWide ==
    /\ buffer = [p \in 0 .. buffersize - 1 |-> 32]
    /\ origin = OriginHigh
    /\ show = OriginHigh
    /\ row = ws_row - 1
    /\ col = 0
    /\ positionstatus = POSITION_UNKNOWN
    /\ escape = -1
    /\ sequence = <<>>
    /\ utf8 = <<>>
    /\ utf8pos = 0
    /\ utf8len = 0
    /\ special = -1
    /\ specialsequence = <<>>
    /\ pc = "main"
    /\ site = "none"
    /\ i = 0
    /\ sbuf = <<>>
    /\ tin = <<>>
    /\ toTerm = <<>>
    /\ toShell = <<>>
    /\ intercepted = <<>>
    /\ tty = [TtyInit EXCEPT !.y = ws_row - 1]

NextWide ==
    \/ \E b \in WideShell : RefShell(b)
    \/ RefShellToTerminal
    \/ RefAnswer
    \/ RefReturn

SpecWide == InitWide /\ [][NextWide]_vars

(***************************************************************************)
(* The main loop with a shell that prints a character and moves the cursor *)
(* to a position, of the screen or out of it, and a terminal that sends a  *)
(* position, of the screen or out of it, when asked and when not.          *)
(***************************************************************************)
\* printf("\033[%d;%dH", y, x) in the shell
MoveTo(y, x) ==
    <<27, 91>> \o Decimal(y) \o <<59>> \o Decimal(x) \o <<MOVECURSORTERMINATOR>>

PosShell ==
    {<<97>>, MoveTo(1, 1), MoveTo(ws_row, ws_col), MoveTo(ws_row + 1, 1),
     MoveTo(1, 0)}

PosTerm ==
    {Reply(1, 1), Reply(ws_row, ws_col), Reply(ws_row + 1, 1),
     Reply(1, ws_col + 1)}

NextPos ==
    \/ \E b \in PosShell : RefShell(b)
    \/ ShellToTerminal
    \/ \E b \in PosTerm : ExchangeTerminal(b)
    \/ \E b \in PosTerm : DrainTerminal(b)
    \/ DrainTimeout
    \/ KnowReturn

SpecPos == Init /\ [][NextPos]_vars

(***************************************************************************)
(* The main loop with a shell that prints an escape sequence longer than   *)
(* the array sequence: ESC [ and digits, 19 at a time; it also prints the  *)
(* letters a and J.                                                        *)
(***************************************************************************)
ManyDigits == [j \in 1 .. (SEQUENCELEN - 2) \div 2 |-> 48]

LongShell == {<<27, 91>>, ManyDigits, <<97>>, <<74>>}

LongReply == {Reply(1, 1)}

NextLongOut ==
    \/ \E b \in LongShell : RefShell(b)
    \/ ShellToTerminal
    \/ \E b \in LongReply : DrainTerminal(b)
    \/ DrainTimeout
    \/ KnowReturn

SpecLongOut == Init /\ [][NextLongOut]_vars

(***************************************************************************)
(* The program between a shell that prints, scrolls the screen and erases  *)
(* it, a terminal that answers ESC [ 6 n at once and a user who presses    *)
(* the scroll up key while the program waits for the answer.               *)
(***************************************************************************)
EraseShell == {<<97, NL>>, <<NL, NL>>, ERASEDISPLAY, ERASECURSORDISPLAY}

EraseKeys == {scrollup}

NextErase ==
    \/ \E b \in EraseShell : RefShell(b)
    \/ RefShellToTerminal
    \/ RefAnswer
    \/ RefReturn
    \/ \E b \in EraseKeys : DrainTerminal(b)

SpecErase == Init /\ [][NextErase]_vars

(***************************************************************************)
(* The main loop with a shell that prints bytes of UTF-8, one at a time, in *)
(* whatever order: a letter, the first byte of a character of two bytes    *)
(* and of one of three, a continuation byte, and a byte that is none of    *)
(* these.                                                                  *)
(***************************************************************************)
Utf8Shell == {<<97>>, <<195>>, <<226>>, <<169>>, <<248>>}

Utf8Term == {Reply(1, 1)}

NextUtf8 ==
    \/ \E b \in Utf8Shell : RefShell(b)
    \/ ShellToTerminal
    \/ \E b \in Utf8Term : DrainTerminal(b)
    \/ DrainTimeout
    \/ KnowReturn

SpecUtf8 == Init /\ [][NextUtf8]_vars

(***************************************************************************)
(* The main loop with a shell that prints control characters between the   *)
(* bytes of a character and of an escape sequence.                         *)
(***************************************************************************)
ControlShell == {<<7>>, <<14>>, <<195>>, <<27, 91>>, <<97>>}

NextControl ==
    \/ \E b \in ControlShell : RefShell(b)
    \/ ShellToTerminal
    \/ \E b \in Utf8Term : DrainTerminal(b)
    \/ DrainTimeout
    \/ KnowReturn

SpecControl == Init /\ [][NextControl]_vars

(***************************************************************************)
(* The main loop with a shell that prints a character and escape           *)
(* sequences, each in a block: ESC [ m, ESC [ K, ESC [ A, ESC 7, the       *)
(* sequences that erase and the ones that move the cursor to a position,   *)
(* of the screen or not.                                                   *)
(***************************************************************************)
CsiShell ==
    {<<97>>, <<27, 91, 109>>, <<27, 91, 75>>, <<27, 91, 65>>, <<27, 55>>,
     ERASEDISPLAY, ERASECURSORDISPLAY, MoveTo(1, 1), MoveTo(ws_row + 1, 1)}

NextCsi ==
    \/ \E b \in CsiShell : RefShell(b)
    \/ ShellToTerminal
    \/ \E b \in Utf8Term : DrainTerminal(b)
    \/ DrainTimeout
    \/ KnowReturn

SpecCsi == Init /\ [][NextCsi]_vars

(***************************************************************************)
(* The program between a shell that prints characters and a terminal that  *)
(* answers ESC [ 6 n with the position its cursor has when it receives it, *)
(* but not always within the time the program waits: the answer is then    *)
(* read by the main loop.                                                  *)
(***************************************************************************)
LateShell == {<<97>>, <<98>>}

\* exchange(master, 1, NULL): the answer of the terminal is read by the
\* main loop
LateAnswer ==
    /\ pc = "main"
    /\ sbuf = <<>>
    /\ tty.answer # <<>>
    /\ Commit(terminalblock(Cur, tty.answer))
    /\ tin' = tty.answer
    /\ tty' = [tty EXCEPT !.answer = <<>>]
    /\ UNCHANGED <<i, sbuf>>

NextLate ==
    \/ \E b \in LateShell : RefShell(b)
    \/ RefShellToTerminal
    \/ RefAnswer
    \/ DrainTimeout
    \/ RefReturn
    \/ LateAnswer

SpecLate == Init /\ [][NextLate]_vars

(***************************************************************************)
(* The main loop with a shell that prints a character, backspace and       *)
(* delete.                                                                 *)
(***************************************************************************)
BackShell == {<<97>>, <<BS>>, <<DEL>>}

NextBack ==
    \/ \E b \in BackShell : RefShell(b)
    \/ ShellToTerminal
    \/ \E b \in Utf8Term : DrainTerminal(b)
    \/ DrainTimeout
    \/ KnowReturn

SpecBack == Init /\ [][NextBack]_vars

(***************************************************************************)
(* The program from its start, with the option -l or without: no option,   *)
(* 1/2, 1/4, 2/1, 0, 1, -1 and x; then the main loop with a shell that     *)
(* prints newlines and a user who presses the scroll keys.                 *)
(***************************************************************************)
LineArgs ==
    {[given |-> FALSE, str |-> <<>>]} \cup
    {[given |-> TRUE, str |-> a] :
        a \in {<<49, 47, 50>>, <<49, 47, 52>>, <<50, 47, 49>>, <<48>>, <<49>>,
               <<45, 49>>, <<120>>}}

InitLines ==
    /\ buffer = [p \in 0 .. buffersize - 1 |-> 32]
    /\ origin = 0
    /\ show = 0
    /\ row = 0
    /\ col = 0
    /\ positionstatus = POSITION_UNKNOWN
    /\ escape = -1
    /\ sequence = <<>>
    /\ utf8 = <<>>
    /\ utf8pos = 0
    /\ utf8len = 0
    /\ special = -1
    /\ specialsequence = <<>>
    /\ pc = "start"
    /\ site = "none"
    /\ i = 0
    /\ sbuf = <<>>
    /\ tin = <<>>
    /\ toTerm = <<>>
    /\ toShell = <<>>
    /\ intercepted = <<>>
    /\ \E a \in LineArgs : tty = [TtyInit EXCEPT !.linestring = a]

\* main(): the number of lines to scroll is set, or the program exits
Startup ==
    /\ pc = "start"
    /\ pc' = IF main_lines(tty.linestring).ok THEN "main" ELSE "exit"
    /\ tin' = <<>>
    /\ toTerm' = <<>>
    /\ toShell' = <<>>
    /\ intercepted' = <<>>
    /\ UNCHANGED <<progvars, site, i, sbuf, tty>>

\* a block from the terminal; the keys are not followed when the number of
\* lines is negative, where the positions shown leave the buffer
LinesTerminal(b) == Cur.lines >= 0 /\ ExchangeTerminal(b)

LinesDrain(b) == Cur.lines >= 0 /\ DrainTerminal(b)

NextLines ==
    \/ Startup
    \/ \E b \in ScrollTerm : LinesTerminal(b)
    \/ \E b \in NewlineShell : ExchangeShell(b)
    \/ ShellToTerminal
    \/ \E b \in ScrollTerm : LinesDrain(b)
    \/ DrainTimeout
    \/ KnowReturn

SpecLines == InitLines /\ [][NextLines]_vars

(***************************************************************************)
(* What a step wrote, seen by the properties.                              *)
(***************************************************************************)
\* the bytes of the shell among what was written to the terminal
BytesOf(out) ==
    LET b == SelectSeq(out, LAMBDA x : x.k = "byte")
    IN  [j \in 1 .. Len(b) |-> b[j].v]

\* the positions in out of a live redraw and of the first byte of the shell
FirstOf(out, kind) ==
    IF \E j \in 1 .. Len(out) : out[j].k = kind
    THEN CHOOSE j \in 1 .. Len(out) :
             out[j].k = kind /\ \A h \in 1 .. j - 1 : out[h].k # kind
    ELSE 0

RECURSIVE IsSubseq(_, _)
\* a is b with some elements removed
IsSubseq(a, b) ==
    IF a = <<>> THEN TRUE
    ELSE IF b = <<>> THEN FALSE
    ELSE IF Head(a) = Head(b) THEN IsSubseq(Tail(a), Tail(b))
    ELSE IsSubseq(a, Tail(b))

RECURSIVE TotalLen(_)
TotalLen(seqs) ==
    IF seqs = <<>> THEN 0 ELSE Len(Head(seqs)) + TotalLen(Tail(seqs))

\* the bytes of the terminal a step had to deal with are those it passed to
\* the shell, those of the sequences it kept and those still pending
Accounted ==
    /\ Len(specialsequence) + Len(tin')
           = Len(toShell') + TotalLen(intercepted') + Len(specialsequence')
    /\ IsSubseq(toShell', specialsequence \o tin')

\* q is ESC [ digits ; digits R
IsReplyShape(q) ==
    /\ Len(q) >= 6
    /\ q[1] = ESCAPE /\ q[2] = 91 /\ q[Len(q)] = GETPOSITIONTERMINATOR
    /\ \E m \in 4 .. Len(q) - 2 :
           /\ q[m] = 59
           /\ \A j \in (3 .. m - 1) \cup (m + 1 .. Len(q) - 1) : IsDigit(q[j])

ContainsReply(str) ==
    \E a \in 1 .. Len(str) : \E b \in a .. Len(str) :
        IsReplyShape(SubSeq(str, a, b))

(***************************************************************************)
(* C1: in every state show is not ahead of origin, origin - show is a      *)
(* multiple of the width of the screen, and show is not further back than  *)
(* the history the buffer holds beyond one screen.  The property is for    *)
(* origin within MaxOrigin, far from the width of a machine integer.       *)
(***************************************************************************)
C1_ShowWithinHistory ==
    /\ show <= origin
    /\ (origin - show) % ws_col = 0
    /\ origin - show <= buffersize - ws_row * ws_col

\* a scroll up key has moved show as far back as the history goes, after the
\* output of the shell has advanced origin
C1_Witness ==
    /\ tin = KEYF11
    /\ origin > buffersize - ws_row * ws_col
    /\ show = origin - ((buffersize - ws_row * ws_col) \div ws_col) * ws_col
    /\ toTerm # <<>>

(***************************************************************************)
(* C6: knowposition() returns after at most 4 reads of the terminal, each  *)
(* one answered or timed out: every read counts, the count never exceeds   *)
(* 4, after the fourth the only step is the return to the main loop, a     *)
(* return without an answer is with the status unknown, and the wait       *)
(* always ends with the return to the main loop.                           *)
(***************************************************************************)
C6_Step ==
    /\ pc = "drain" => i <= 4
    /\ (pc = "drain" /\ pc' = "drain") => (i < 4 /\ i' = i + 1)
    /\ (pc = "drain" /\ i = 4) => (pc' = "main" /\ sbuf' = Tail(sbuf))
    /\ (pc = "drain" /\ pc' = "main" /\ i < 4) =>
           positionstatus # POSITION_UNKNOWN
    /\ (pc = "drain" /\ positionstatus' # POSITION_UNKNOWN) =>
           (pc' = "main" \/ \E a \in 1 .. Len(intercepted') :
                readposition_ok(intercepted'[a], GETPOSITIONTERMINATOR))

C6_DrainReturns == [][C6_Step]_vars /\ ((pc = "drain") ~> (pc = "main"))

\* the terminal never answered: four reads timed out, the status is unknown
\* and the next step is the return to the main loop
C6_Witness ==
    /\ pc = "drain"
    /\ i = 4
    /\ positionstatus = POSITION_UNKNOWN
    /\ tin = <<>>
    /\ ENABLED KnowReturn

(***************************************************************************)
(* C8: a step that passes a byte of the shell to the terminal while the    *)
(* history is shown (show # origin) first redraws the live screen, and     *)
(* leaves show = origin.                                                   *)
(***************************************************************************)
C8_Step ==
    (show # origin /\ BytesOf(toTerm') # <<>>) =>
        /\ show' = origin'
        /\ FirstOf(toTerm', "showlive") > 0
        /\ FirstOf(toTerm', "showlive") < FirstOf(toTerm', "byte")

C8_OutputCancelsHistory == [][C8_Step]_vars

(***************************************************************************)
(* C2: every byte read from the terminal that is not part of a completed   *)
(* scroll key, save key (in the history) or position answer is written to  *)
(* the shell, in the order of arrival: the bytes pending before a read and *)
(* those read are all either written to the shell, part of a sequence that *)
(* was acted upon, or still pending.                                       *)
(***************************************************************************)
C2_Step == tin' # <<>> => Accounted

C2_NoByteDropped == [][C2_Step]_vars

(***************************************************************************)
(* C3: a sequence ESC [ row ; col R read from the terminal is never        *)
(* written to the shell, in the main loop or in knowposition().            *)
(***************************************************************************)
C3_AnswerNotForwarded == tin # <<>> => ~ContainsReply(toShell)

(***************************************************************************)
(* C7: while knowposition() waits no byte of the shell is taken up, and    *)
(* the bytes the terminal sends meanwhile are all dealt with: passed to    *)
(* the shell in order, acted upon or kept pending, none lost.              *)
(***************************************************************************)
C7_Step ==
    /\ (pc = "drain" /\ pc' = "drain") =>
           /\ sbuf' = sbuf
           /\ BytesOf(toTerm') = <<>>
           /\ <<escape', sequence', utf8', utf8pos', utf8len'>>
                  = <<escape, sequence, utf8, utf8pos, utf8len>>
    /\ (pc = "drain" /\ tin' # <<>>) =>
           /\ pc' = "drain"
           /\ Accounted

C7_DrainKeepsTerminalBytes == [][C7_Step]_vars

(***************************************************************************)
(* C4: every byte of the shell is written to the terminal once, in the     *)
(* order of arrival, whatever it is: by the step that takes it up, or, if  *)
(* it is a character to print and the position is asked first, by the      *)
(* step that follows the return of knowposition().  All else the program   *)
(* writes to the terminal is its question for the position, the history    *)
(* or the live screen, and its notifications.                              *)
(***************************************************************************)
C4_Step ==
    /\ (pc = "main" /\ sbuf # <<>>) =>
           /\ BytesOf(toTerm') =
                  IF pc' = "drain" /\ site' = "print" THEN <<>> ELSE <<Head(sbuf)>>
           /\ sbuf' = IF pc' = "drain" THEN sbuf ELSE Tail(sbuf)
    /\ (pc = "drain" /\ pc' = "main") =>
           /\ BytesOf(toTerm') = IF site = "print" THEN <<Head(sbuf)>> ELSE <<>>
           /\ sbuf' = Tail(sbuf)
    /\ (sbuf = <<>> \/ (pc = "drain" /\ pc' = "drain")) =>
           /\ BytesOf(toTerm') = <<>>
           /\ sbuf' = sbuf \/ sbuf = <<>>
    /\ \A j \in 1 .. Len(toTerm') :
           toTerm'[j].k \in {"byte", "ASKPOSITION", "SAVECURSOR",
                             "showhistory", "showlive", "notify"}

C4_EveryByteOnce == [][C4_Step]_vars

\* the history was shown when a control character came: the live screen is
\* redrawn and then the character is passed on
C4_Witness ==
    /\ Len(toTerm) = 2
    /\ toTerm[1].k = "showlive"
    /\ toTerm[2] = Byte(7)
    /\ origin > 0

(***************************************************************************)
(* C5 as stated: the answer written to the shell for ESC[6n is for row + 1 *)
(* and col + 1.                                                            *)
(***************************************************************************)
C5_Stated_Step ==
    (pc = "drain" /\ site = "askposition" /\ pc' = "main") =>
        toShell' = ANSWERPOSITION(row + 1, col + 1)

C5_Step ==
    /\ (pc = "drain" /\ site = "askposition" /\ pc' = "main") =>
           /\ toShell' = ANSWERPOSITION(row + 1,
                                        IF col < ws_col THEN col + 1 ELSE col)
           /\ row' = row /\ col' = col
           /\ \A y \in 1 .. ws_row : \A x \in 1 .. ws_col :
                  tin = Reply(y, x) =>
                      /\ row = y - 1 /\ col = x - 1
                      /\ positionstatus = IF x < ws_col THEN POSITION_KNOWN
                                          ELSE POSITION_UNCERTAIN
                      /\ toShell' = tin
    /\ ~(pc = "drain" /\ site = "askposition" /\ pc' = "main") =>
           ~ContainsReply(toShell')

Printed(c) == c >= 32 \/ c \in {BS, NL, FF, CR}

C9_Step ==
    (/\ pc = "main" /\ sbuf # <<>> /\ pc' = "main"
     /\ escape = -1 /\ Printed(Head(sbuf))
     /\ <<buffer', origin', row', col'>> # <<buffer, origin, row, col>>) =>
        positionstatus = POSITION_KNOWN

C9_PrintedWherePositionKnown == [][C9_Step]_vars

(***************************************************************************)
(* C10: with a shell that prints less than a screen of characters,         *)
(* newlines, carriage returns, ESC[2J and ESC[J, and a terminal that       *)
(* answers with the position of its cursor, whenever the program has       *)
(* dealt with all the shell sent, the cells of the buffer from origin on   *)
(* hold the characters on the screen of the terminal.                      *)
(***************************************************************************)
C10_BufferIsScreen ==
    (pc = "main" /\ sbuf = <<>>) =>
        \A p \in 0 .. ws_row * ws_col - 1 :
            buffer[(origin + p) % buffersize] = tty.screen[p]

(***************************************************************************)
(* Scrolling.                                                              *)
(***************************************************************************)
\* all the terminal has displayed from the start, the oldest row first: the
\* rows that left the screen and then the screen
Displayed == tty.off \o [j \in 1 .. ws_row * ws_col |-> tty.screen[j - 1]]

\* the cells the buffer retains hold what the terminal displayed there
StoreAgrees ==
    /\ origin = Len(tty.off)
    /\ \A p \in 0 .. origin + ws_row * ws_col - 1 :
           p >= origin + ws_row * ws_col - buffersize
               => buffer[p % buffersize] = Displayed[p + 1]

\* the views painted by a step
Views(out, kind) == {j \in 1 .. Len(out) : out[j].k = kind}

C11_Step ==
    tin' \in ViewKeys =>
        /\ UNCHANGED <<buffer, origin, row, col, positionstatus>>
        /\ \A j \in Views(toTerm', "showhistory") :
               /\ toTerm'[j].v = show' /\ show' # origin
               /\ StoreAgrees =>
                      toTerm'[j].cells =
                          SubSeq(Displayed, show' + 1,
                                 show' + (ws_row - 2) * ws_col)
        /\ \A j \in Views(toTerm', "showlive") :
               /\ show' = origin
               /\ toTerm'[j].cells =
                      [h \in 1 .. ws_row * ws_col |->
                          buffer[(origin + h - 1) % buffersize]]

\* C11: a scroll key, in the main loop or while the program waits for the
\* answer of the terminal, leaves the buffer, origin, row, col and the
\* position status as they were; the view it paints when show differs from
\* origin is, cell for cell, what the terminal displayed at the rows from
\* show on (when the buffer holds what the terminal displayed), and the view
\* it paints on coming back to show = origin is the content of the buffer
\* from origin on as it was before the key
C11_ScrollOnlyMovesShow == [][C11_Step]_vars

\* output taller than the screen has moved the row of an 'a' off the screen,
\* far enough for the buffer to be written past its end, and a scroll key has
\* painted that row
C11_Witness ==
    /\ tin = scrollup
    /\ Len(tty.off) + ws_row * ws_col > buffersize
    /\ StoreAgrees
    /\ \E j \in Views(toTerm, "showhistory") :
           \E h \in 1 .. Len(toTerm[j].cells) : toTerm[j].cells[h] = 97

\* the rows of history the buffer holds beyond one screen
maxHistoryRows == (buffersize - ws_row * ws_col) \div ws_col

Max(a, b) == IF a >= b THEN a ELSE b

Min(a, b) == IF a <= b THEN a ELSE b

C12_Stated_Step ==
    /\ tin' = scrollup =>
           show' = Max(origin - maxHistoryRows * ws_col, show - lines * ws_col)
    /\ tin' = scrolldown => show' = Min(origin, show + lines * ws_col)

\* C12 as stated: after the scrollup key show is the larger of
\* origin - maxHistoryRows * cols and show - lines * cols, after the
\* scrolldown key the smaller of origin and show + lines * cols
C12_ClampToHistory == [][C12_Stated_Step]_vars

C12_Step ==
    /\ tin' = scrollup =>
           show' = Max(0, Max(origin - maxHistoryRows * ws_col,
                              show - lines * ws_col))
    /\ tin' = scrolldown => show' = Min(origin, show + lines * ws_col)

\* C12: after the scrollup key show is the largest of 0,
\* origin - maxHistoryRows * cols and show - lines * cols: the view does not
\* go before the first cell written; after the scrolldown key it is the
\* smaller of origin and show + lines * cols
C12_ClampToWritten == [][C12_Step]_vars

\* the scrollup key has arrived with more rows written than the buffer holds,
\* and the view is at the oldest row it holds
C12_Witness ==
    /\ tin = scrollup
    /\ show = origin - maxHistoryRows * ws_col
    /\ show > 0

C13_Step ==
    \/ tin' = scrollup /\ show = Max(0, origin - maxHistoryRows * ws_col)
    \/ tin' = scrolldown /\ show = origin
    => show' = show /\ toTerm' = <<>> /\ toShell' = <<>>

\* C13: the scrollup key received when show is at the oldest row that can be
\* shown, and the scrolldown key received when show = origin, leave show as
\* it is, write nothing to the terminal and nothing to the shell
C13_IdempotentAtClamps == [][C13_Step]_vars

\* the scrollup key has arrived with the view at the oldest row the buffer
\* holds, and nothing was painted
C13_Witness ==
    /\ tin = scrollup
    /\ show = origin - maxHistoryRows * ws_col
    /\ show > 0
    /\ toTerm = <<>>

(***************************************************************************)
(* Filling the buffer.                                                     *)
(***************************************************************************)
\* the characters printed beyond a screen of them, once they are all stored
Beyond == tty.n - ws_row * ws_col

Filled == pc = "main" /\ sbuf = <<>> /\ Beyond > 0

\* the screen from origin on is the last ws_row rows of what was printed
LiveIsLastRows ==
    /\ Len(tty.off) = origin
    /\ \A h \in 0 .. ws_row * ws_col - 1 :
           buffer[(origin + h) % buffersize] = Displayed[origin + h + 1]
    /\ \A h \in 1 .. Len(Displayed) : Displayed[h] # 32 <=> h <= tty.n

\* C14 as stated: ws_row * ws_col + k characters printed from the top left
\* of an empty buffer advance origin by k * ws_col cells
C14_OriginByCharacters ==
    Filled => origin = Beyond * ws_col /\ LiveIsLastRows

\* C14: ws_row * ws_col + k characters printed from the top left of an empty
\* buffer advance origin by ws_col cells for every row the k characters
\* begin, that is by ((k + ws_col - 1) / ws_col) * ws_col cells, and the
\* live screen from origin on is the last ws_row rows of what was printed
C14_OriginByRows ==
    Filled => /\ origin = ((Beyond + ws_col - 1) \div ws_col) * ws_col
              /\ LiveIsLastRows

\* a screen, a row and a character have been printed
C14_Witness == Filled /\ Beyond = ws_col + 1 /\ origin = 2 * ws_col

(***************************************************************************)
(* The conversions.                                                        *)
(***************************************************************************)
\* C15: ucs4toutf8 stores 1 byte for a character below 0x80, 2 below 0x800,
\* 3 below 0x10000 and 4 from there on, and utf8toucs4 of these bytes is the
\* character, for every character of the basic multilingual plane and for
\* the characters of 4 bytes tried, up to 0x10FFFF
C15_RoundTrip ==
    pc = "codec" =>
        /\ i >= 1 =>
               Len(utf8) = IF buffer[0] < 128 THEN 1
                           ELSE IF buffer[0] < 2048 THEN 2
                           ELSE IF buffer[0] < 65536 THEN 3
                           ELSE 4
        /\ i = 2 => buffer[1] = buffer[0]

\* the euro sign, 0x20AC, has been converted to E2 82 AC and back
C15_Witness ==
    /\ pc = "codec"
    /\ i = 2
    /\ buffer[0] = 8364
    /\ utf8 = <<226, 130, 172>>
    /\ buffer[1] = 8364

(***************************************************************************)
(* The end of the main loop.                                               *)
(***************************************************************************)
\* C16: once select() or a read() has failed, or a read() has returned 0, in
\* the main loop or in the loop of knowposition(), the main loop has ended
C16_EndsOnFailure == tty.bad > 0 => pc = "exit"

(***************************************************************************)
(* The right margin.                                                       *)
(***************************************************************************)
\* the cells of the buffer from origin on hold what is on the screen
LiveIsScreen ==
    \A p \in 0 .. ws_row * ws_col - 1 :
        buffer[(origin + p) % buffersize] = tty.screen[p]

C17_Step ==
    (/\ pc = "drain" /\ pc' = "main"
     /\ positionstatus = POSITION_UNCERTAIN
     /\ Head(sbuf) >= 32 /\ Head(sbuf) # DEL
     /\ LiveIsScreen) => LiveIsScreen'

\* C17: a character printed after the terminal answered the query made for
\* it with the last column (status uncertain) is stored in the cell where
\* the terminal displays it, and in no cell that holds another character on
\* display: if the buffer from origin on held what is on the screen before
\* the character, it does after it
C17_MarginKeepsCharacters == [][C17_Step]_vars

(***************************************************************************)
(* The sequence from the terminal.                                         *)
(***************************************************************************)
\* C18: the bytes of the sequence from the terminal kept in specialsequence
\* are never more than SEQUENCELEN, the size of the array: none is stored
\* past its end
C18_AccumulatorBounded ==
    special <= SEQUENCELEN /\ Len(specialsequence) <= SEQUENCELEN

(***************************************************************************)
(* The sequences of the shell the program acts on.                         *)
(***************************************************************************)
\* the sequence of the shell with the byte the program is about to read
Arriving == Append(sequence, Head(sbuf))

\* the program is about to read the last byte of a sequence it acts on
Recognized ==
    /\ pc = "main" /\ sbuf # <<>> /\ escape >= 0
    /\ \/ Arriving \in {ERASEDISPLAY, ERASECURSORDISPLAY, ASKPOSITION}
       \/ readposition_ok(Arriving, MOVECURSORTERMINATOR)
       \/ breakout_ok(Arriving)

\* the cells of the screen from cell p on are blank after the step
BlankFrom(p) ==
    \A q \in p .. ws_row * ws_col - 1 : buffer'[(origin + q) % buffersize] = 32

\* what the program does on the last byte of the sequence
Effect ==
    /\ Arriving = ERASEDISPLAY => BlankFrom(0)
    /\ Arriving = ERASECURSORDISPLAY =>
           IF positionstatus = POSITION_KNOWN
           THEN BlankFrom(row * ws_col + col)
           ELSE pc' = "drain" /\ Ask \in {toTerm'[j] : j \in 1 .. Len(toTerm')}
    /\ Arriving = ASKPOSITION => pc' = "drain" /\ site' = "askposition"
    /\ readposition_ok(Arriving, MOVECURSORTERMINATOR) =>
           /\ row' = Scan2Args(Arriving).y - 1
           /\ col' = Scan2Args(Arriving).x - 1
           /\ positionstatus' = POSITION_KNOWN
    /\ breakout_ok(Arriving) => Views(toTerm', "vtrun") # {}

C19_Stated_Step == Recognized => BytesOf(toTerm') = <<>> /\ Effect

\* C19 as stated: on the last byte of ESC[2J, ESC[J, ESC[6n, ESC[row;colH or
\* ESC[0;PIDv from the shell the program acts on the sequence and does not
\* write the byte to the terminal
C19_ConsumedNotForwarded == [][C19_Stated_Step]_vars

C19_Step ==
    /\ Recognized => BytesOf(toTerm') = <<Head(sbuf)>> /\ Effect
    /\ (pc = "main" /\ sbuf # <<>> /\ (escape >= 0 \/ Head(sbuf) = ESCAPE)) =>
           BytesOf(toTerm') = <<Head(sbuf)>>

\* C19: on the last byte of ESC[2J, ESC[J, ESC[6n, ESC[row;colH or
\* ESC[0;PIDv from the shell the program acts on the sequence (it erases
\* the buffer, queries the terminal, takes the position or runs the
\* breakout), and every byte of a sequence of the shell, the last of these
\* included, is written to the terminal as it is read
C19_ConsumedAndForwarded == [][C19_Step]_vars

\* the last byte of ESC[2J has been written to the terminal and the screen
\* in the buffer, where the cursor had left the top left corner, is blank
C19_Witness ==
    /\ pc = "main" /\ escape = -1
    /\ BytesOf(toTerm) = <<74>>
    /\ positionstatus = POSITION_UNKNOWN
    /\ row * ws_col + col > 0
    /\ \A q \in 0 .. ws_row * ws_col - 1 : buffer[(origin + q) % buffersize] = 32

(***************************************************************************)
(* The keys that save the buffer.                                          *)
(***************************************************************************)
C20_Step ==
    tin' \in {KEYF2, KEYF3} =>
        IF show # origin
        THEN /\ Cardinality(Views(toTerm', "savefile")) = 1
             /\ toShell' = <<>>
             /\ Views(toTerm', "system") # {} <=> tin' = KEYF3
        ELSE /\ Views(toTerm', "savefile") = {}
             /\ Views(toTerm', "system") = {}
             /\ toShell' = tin'

\* C20: the keys F2 (ESC[[B) and F3 (ESC[[C) make the program save the
\* buffer to the file, and with F3 run the command on it, only when they
\* arrive with show different from origin; when they arrive with
\* show = origin the program writes no file, runs no command and writes the
\* whole sequence to the shell as it came
C20_SaveOnlyWhenScrolling == [][C20_Step]_vars

\* F2 has arrived during scrolling and the file has been written
C20_Witness ==
    /\ tin = KEYF2
    /\ show # origin
    /\ Views(toTerm, "savefile") # {}
    /\ toShell = <<>>

C21_Step ==
    (tin' \in {KEYF2, KEYF3} /\ show # origin) =>
        /\ UNCHANGED <<buffer, origin, show, row, col, positionstatus>>
        /\ pc' = pc
        /\ toShell' = <<>>
        /\ Views(toTerm', "notify") # {}
        /\ Views(toTerm', "savefile") # {} <=> tty.fopen

\* C21: F2 or F3 received with show different from origin, whether or not
\* the file can be created and whether the command runs, fails or is not
\* found, leaves the buffer, origin, show, row, col and the position status
\* as they were, so that show still differs from origin, and the program
\* where it was in its loop; a message is written to the terminal, and the
\* file is written when it can be created
C21_SaveLeavesState == [][C21_Step]_vars

\* F3 has arrived during scrolling when the file could not be created
C21_Witness ==
    /\ tin = KEYF3
    /\ show # origin
    /\ ~tty.fopen
    /\ Views(toTerm, "savefile") = {}
    /\ Views(toTerm, "notify") # {}

(***************************************************************************)
(* The breakout.                                                           *)
(***************************************************************************)
\* the program reads the last byte of a breakout sequence: a step of the
\* program, not of the script
Breakout ==
    /\ pc = "main" /\ sbuf # <<>> /\ escape >= 0 /\ breakout_ok(Arriving)
    /\ tty' = tty

\* the step runs the script and waits for its end, and reads nothing more
\* from the terminal or from the shell
Handover ==
    /\ \E j \in Views(toTerm', "vtrun") :
           j < Len(toTerm') /\ toTerm'[j + 1].k = "waitpid"
    /\ tin' = <<>>
    /\ sbuf' = Tail(sbuf)
    /\ toShell' = <<>>

\* bridging resumes
Resumed ==
    /\ pc' = "main"
    /\ UNCHANGED <<buffer, origin>>
    /\ escape' = -1 /\ sequence' = <<>>
    /\ positionstatus' = POSITION_UNKNOWN

C22_Stated_Step == Breakout => Handover /\ Resumed /\ show' = show

\* C22 as stated: on the last byte of ESC[0;PIDv the program runs the
\* script and reads nothing until it has ended; then, whatever its exit
\* status, the buffer, origin and show are as before, no sequence is in
\* progress and the position is unknown
C22_BreakoutKeepsView == [][C22_Stated_Step]_vars

C22_Step == Breakout => Handover /\ Resumed /\ show' = origin

\* C22: on the last byte of ESC[0;PIDv the program runs the script and
\* reads nothing until it has ended; then, whatever its exit status, the
\* buffer and origin are as before, show is origin (the byte ends the
\* scrolling if the user was scrolling), no sequence is in progress and the
\* position is unknown
C22_BreakoutResumesLive == [][C22_Step]_vars

\* the last byte of a breakout sequence has arrived during scrolling: the
\* live screen was redrawn, and the script was run, ending with status 1
C22_Witness ==
    /\ pc = "main" /\ escape = -1
    /\ Views(toTerm, "showlive") # {}
    /\ \E j \in Views(toTerm, "waitpid") : toTerm[j].v = 1
    /\ show = origin /\ origin > 0

(***************************************************************************)
(* The cursor.                                                             *)
(***************************************************************************)
\* C23 as stated: in every state row is a row of the screen and col a
\* column of the screen, 0 <= row < ws_row and 0 <= col < ws_col
C23_CursorWithinScreen ==
    /\ 0 <= row /\ row < ws_row
    /\ 0 <= col /\ col < ws_col

\* C23: in every state row is a row of the screen and col is a column of
\* the screen or ws_col, the column after the last, where the cursor is
\* after a character in the last column: 0 <= row < ws_row and
\* 0 <= col <= ws_col
C23_CursorWithinMargin ==
    /\ 0 <= row /\ row < ws_row
    /\ 0 <= col /\ col <= ws_col

\* a character was printed in the last column of the last row
C23_Witness ==
    /\ row = ws_row - 1
    /\ col = ws_col
    /\ BytesOf(toTerm) = <<32>>


(***************************************************************************)
(* C24: every index into the array of the buffer is within 0 and           *)
(* buffersize - 1, also after origin has gone past the largest int and     *)
(* wrapped around: the indices of the cells of the screen from origin and  *)
(* from show, that erase(), shelltoterminal() and showscrollback() use.    *)
(***************************************************************************)
C24_IndexInRange ==
    \A j \in 0 .. ws_row * ws_col :
        /\ ringindex(origin, j) \in 0 .. buffersize - 1
        /\ ringindex(show, j) \in 0 .. buffersize - 1


(***************************************************************************)
(* The position read from a sequence.                                      *)
(***************************************************************************)
\* y and x are a position of the screen, counted from 1
OnScreen(y, x) == 1 <= y /\ y <= ws_row /\ 1 <= x /\ x <= ws_col

\* the sequence str is ESC [ y ; x and the byte term
PairWith(str, term) ==
    /\ Scan2Args(str).n = 4
    /\ Scan2Args(str).s = ESCAPE
    /\ Scan2Args(str).t = term

\* row, col and positionstatus are the same in the states s and u
SamePosition(s, u) ==
    s.row = u.row /\ s.col = u.col /\ s.positionstatus = u.positionstatus

C25_Step ==
    /\ (tin' # <<>> /\ special = -1 /\ PairWith(tin', GETPOSITIONTERMINATOR)) =>
           LET a == Scan2Args(tin')
           IN  IF OnScreen(a.y, a.x)
               THEN /\ row' = a.y - 1 /\ col' = a.x - 1
                    /\ positionstatus' = IF a.x = ws_col THEN POSITION_UNCERTAIN
                                                        ELSE POSITION_KNOWN
                    /\ toShell' = <<>>
               ELSE /\ row' = row /\ col' = col
                    /\ positionstatus' = positionstatus
                    /\ toShell' = tin'
    /\ (pc = "main" /\ sbuf # <<>> /\ escape >= 0
           /\ PairWith(Arriving, MOVECURSORTERMINATOR)) =>
           LET a == Scan2Args(Arriving)
           IN  /\ readposition_ok(Arriving, MOVECURSORTERMINATOR)
                     <=> OnScreen(a.y, a.x)
               /\ IF OnScreen(a.y, a.x)
                  THEN /\ row' = a.y - 1 /\ col' = a.x - 1
                       /\ positionstatus' = POSITION_KNOWN
                  ELSE /\ row' = row /\ col' = col
                       /\ SamePosition(readposition(Cur, Arriving,
                                                    MOVECURSORTERMINATOR), Cur)
    /\ (pc = "main" /\ sbuf # <<>> /\ escape = -1 /\ utf8len = 0
           /\ Head(sbuf) = 97 /\ positionstatus = POSITION_KNOWN) =>
           /\ pc' = "main"
           /\ Views(toTerm', "ASKPOSITION") = {}
           /\ BytesOf(toTerm') = <<97>>

\* C25: readposition() takes the position from ESC [ y ; x and the
\* terminator only when 1 <= y <= rows and 1 <= x <= cols: then row = y - 1
\* and col = x - 1, and the status is uncertain if the terminator is R and
\* x = cols, known otherwise, so that after ESC [ y ; x H of the shell the
\* status is known and the next character is printed with no query; when
\* the position is not of the screen readposition() leaves row, col and the
\* status as they are
C25_PositionFromSequence == [][C25_Step]_vars

\* the terminal has answered with the cursor in the last column of the last
\* row and the status is uncertain
C25_Witness ==
    /\ tin = Reply(ws_row, ws_col)
    /\ row = ws_row - 1 /\ col = ws_col - 1
    /\ positionstatus = POSITION_UNCERTAIN
    /\ intercepted # <<>>


(***************************************************************************)
(* The position that is known is not asked.                                *)
(***************************************************************************)
\* the program is about to read from the shell a byte it prints: not a
\* control character it passes on as it is, not a byte of an escape sequence
Printing ==
    /\ pc = "main" /\ sbuf # <<>>
    /\ escape = -1 /\ Head(sbuf) # ESCAPE
    /\ ~(Head(sbuf) <= 31 /\ Head(sbuf) \notin {BS, NL, FF, CR})

C26_Step ==
    (Printing /\ positionstatus = POSITION_KNOWN) =>
        /\ knowposition(Cur, FALSE, "print") = Cur
        /\ Views(toTerm', "ASKPOSITION") = {}
        /\ BytesOf(toTerm') = <<Head(sbuf)>>
        /\ pc' = "main" /\ tin' = <<>> /\ sbuf' = Tail(sbuf)
        /\ positionstatus' = POSITION_KNOWN

\* C26: with the status known knowposition(master, 0) returns at once: it
\* writes no query, reads nothing from the terminal and leaves row, col and
\* the status as they are; the byte is printed and the status is still
\* known, so that the bytes printed one after the other once the position
\* is known cause no query
C26_KnownIsNotAsked == [][C26_Step]_vars

\* the second character in a row printed with the status known, with no
\* query
C26_Witness ==
    /\ pc = "main"
    /\ positionstatus = POSITION_KNOWN
    /\ col = 2
    /\ BytesOf(toTerm) = <<32>>
    /\ Views(toTerm, "ASKPOSITION") = {}


(***************************************************************************)
(* The escape sequence of the shell that does not fit the array.           *)
(***************************************************************************)
\* the program is about to read from the shell a byte of an escape sequence
\* when sequence holds SEQUENCELEN - 1 bytes
Overflowing ==
    /\ pc = "main" /\ sbuf # <<>>
    /\ escape = SEQUENCELEN - 1
    /\ ~(Head(sbuf) <= 31 /\ Head(sbuf) \notin {ESCAPE, BS, NL, FF, CR})

C27_Step ==
    /\ Overflowing =>
           /\ escape' = -1 /\ sequence' = <<>>
           /\ positionstatus' = POSITION_UNKNOWN
           /\ pc' = "main" /\ sbuf' = Tail(sbuf)
           /\ buffer' = buffer /\ row' = row /\ col' = col
    /\ (Printing /\ positionstatus = POSITION_UNKNOWN /\ utf8len = 0) =>
           /\ pc' = "drain"
           /\ Views(toTerm', "ASKPOSITION") # {}
           /\ escape' = -1

\* C27: the bytes of an escape sequence of the shell are stored in slots 0
\* to SEQUENCELEN - 2 of sequence, and escape, the index, is never beyond
\* SEQUENCELEN - 1; a byte that arrives when SEQUENCELEN - 1 bytes are
\* stored ends the sequence: escape is -1, sequence is empty, the status is
\* unknown, and the byte after it is taken as the first of what follows (a
\* character to print makes the program ask for the position)
C27_LongSequenceAborted ==
    /\ [](/\ escape <= SEQUENCELEN - 1
          /\ Len(sequence) <= SEQUENCELEN - 1
          /\ (escape >= 0 => Len(sequence) = escape))
    /\ [][C27_Step]_vars

\* the fortieth byte of a sequence has been written to the terminal and
\* the sequence is no more
C27_Witness ==
    /\ tty.n = 3
    /\ pc = "main" /\ sbuf = <<>>
    /\ escape = -1 /\ sequence = <<>>
    /\ positionstatus = POSITION_UNKNOWN
    /\ BytesOf(toTerm) = <<48>>
    /\ row = 0 /\ col = 0


(***************************************************************************)
(* The cursor saved and restored around the history.                       *)
(***************************************************************************)
C28_Step ==
    /\ Views(toTerm', "SAVECURSOR") # {} <=>
           (tin' = scrollup /\ show = origin /\ show' # origin')
    /\ Views(toTerm', "SAVECURSOR") # {} =>
           /\ Cardinality(Views(toTerm', "SAVECURSOR")) = 1
           /\ FirstOf(toTerm', "SAVECURSOR") < FirstOf(toTerm', "showhistory")
    /\ (show # origin /\ show' = origin') => Views(toTerm', "showlive") # {}
    /\ Views(toTerm', "showlive") # {} => show # origin /\ show' = origin'

\* C28: ESC [ s is written to the terminal exactly on the scroll up key
\* that takes show from origin to a position in the history, once and
\* before the history is painted; every step that brings show back to
\* origin paints the screen, ending with ESC [ u, and no other step does:
\* saves and restores alternate
C28_SaveRestoreAlternate == [][C28_Step]_vars


(***************************************************************************)
(* The new row.                                                            *)
(***************************************************************************)
\* the cells of the array where the last row of the screen is once origin
\* has advanced by a row
NewBottomRow ==
    {(origin + ws_col + (ws_row - 1) * ws_col + j) % buffersize :
         j \in 0 .. ws_col - 1}

\* what newrow() makes of the state
NewRowAdvances ==
    LET n == newrow(Cur)
    IN  IF row < ws_row - 1
        THEN n = [Cur EXCEPT !.row = row + 1]
        ELSE /\ n.row = row
             /\ n.origin = origin + ws_col
             /\ n.show = origin + ws_col
             /\ Cardinality(NewBottomRow) = ws_col
             /\ \A p \in DOMAIN buffer :
                    n.buffer[p] = IF p \in NewBottomRow THEN 32 ELSE buffer[p]
             /\ n = [Cur EXCEPT !.origin = n.origin, !.show = n.show,
                                !.buffer = n.buffer]

C29_Step ==
    (pc = "main" /\ sbuf # <<>> /\ Head(sbuf) = NL /\ escape = -1
        /\ utf8len = 0 /\ positionstatus = POSITION_KNOWN /\ show = origin) =>
        /\ row' = newrow(Cur).row
        /\ origin' = newrow(Cur).origin
        /\ show' = newrow(Cur).show
        /\ buffer' = newrow(Cur).buffer

\* C29: newrow() with row < rows - 1 adds one to row and changes nothing
\* else; otherwise it leaves row, adds cols to origin, sets show to the new
\* origin and makes blank the cols cells of the last row of the screen from
\* the new origin, and no other cell; a newline of the shell printed with
\* the position known does this to row, origin, show and the buffer
C29_NewRow == [](NewRowAdvances) /\ [][C29_Step]_vars

\* a newline in the last row has made blank the cell where the first
\* character printed was, now in the row that left the screen first
C29_Witness ==
    /\ pc = "main"
    /\ BytesOf(toTerm) = <<NL>>
    /\ row = ws_row - 1
    /\ origin = buffersize - 2 * ws_col
    /\ \A p \in DOMAIN buffer : buffer[p] = 32
    /\ \E j \in 1 .. Len(tty.off) : tty.off[j] = 97


(***************************************************************************)
(* The screen erased by the shell.                                         *)
(***************************************************************************)
\* the buffer with the cells of the screen from cell p on made blank, and
\* every other cell as it is
Blanked(p) ==
    [h \in DOMAIN buffer |->
        IF \E q \in p .. ws_row * ws_col - 1 : h = (origin + q) % buffersize
        THEN 32 ELSE buffer[h]]

\* the program is about to erase from the cursor on: it reads the last byte
\* of ESC [ J with the position known, or it has the position for it
ErasingFromCursor ==
    \/ /\ pc = "main" /\ sbuf # <<>> /\ escape >= 0
       /\ Arriving = ERASECURSORDISPLAY
       /\ positionstatus = POSITION_KNOWN
    \/ /\ pc = "drain" /\ site = "erasecursor"
       /\ ~knowposition_loop(i, positionstatus)

C30_Step ==
    /\ (pc = "main" /\ sbuf # <<>> /\ escape >= 0 /\ Arriving = ERASEDISPLAY) =>
           /\ buffer' = Blanked(0)
           /\ origin' = origin /\ show' = show
    /\ ErasingFromCursor =>
           /\ buffer' = Blanked(row * ws_col + col)
           /\ origin' = origin /\ show' = show
           /\ row' = row /\ col' = col
    /\ (pc = "main" /\ sbuf # <<>> /\ escape >= 0
           /\ Arriving = ERASECURSORDISPLAY
           /\ positionstatus # POSITION_KNOWN) =>
           /\ buffer' = buffer
           /\ pc' = "drain" /\ site' = "erasecursor"

Taking(c) ==
    /\ sbuf # <<>> /\ Head(sbuf) = c /\ escape = -1
    /\ \/ pc = "main" /\ (utf8len # 0 \/ positionstatus = POSITION_KNOWN)
       \/ pc = "drain" /\ site = "print"
            /\ ~knowposition_loop(i, positionstatus)

\* the cell of the buffer where the cursor is
CursorCell == (origin + row * ws_col + col) % buffersize

\* the character w has been stored in the cell of the cursor, in that cell
\* only, and the cursor is one column further
StoredOne(w) ==
    /\ buffer'[CursorCell] = w
    /\ \A h \in DOMAIN buffer \ {CursorCell} : buffer'[h] \in {buffer[h], 32}
    /\ col' = IF col >= ws_col THEN 1 ELSE col + 1

C31_Step ==
    \A c \in 128 .. 255 :
        /\ (Taking(c) /\ IsCont(c) /\ (utf8pos = 0 \/ utf8len = 0)) =>
               /\ buffer' = buffer /\ row' = row /\ col' = col
               /\ utf8pos' = utf8pos /\ utf8len' = utf8len
               /\ sbuf' = Tail(sbuf)
        /\ (Taking(c) /\ c \div 32 = 6) =>
               utf8' = <<c>> /\ utf8pos' = 1 /\ utf8len' = 1
        /\ (Taking(c) /\ c \div 16 = 14) =>
               utf8' = <<c>> /\ utf8pos' = 1 /\ utf8len' = 2
        /\ (Taking(c) /\ IsCont(c) /\ utf8pos > 0 /\ utf8len = 1
               /\ Len(utf8) = utf8pos) =>
               /\ StoredOne(utf8toucs4(Append(utf8, c)))
               /\ utf8len' = 0

\* C31: a continuation byte that arrives when no character is open (no
\* first byte was read, or the character is complete) leaves the buffer,
\* row, col and the state of the decoder as they are; the first byte of a
\* character that follows opens the character whatever came before, and
\* its last continuation byte stores the character, one value in one cell,
\* and moves the cursor by one column
C31_StrayContinuationDropped == [][C31_Step]_vars

\* after a continuation byte that was dropped, a character of two bytes has
\* been stored in the first cell
C31_Witness ==
    /\ pc = "main" /\ sbuf = <<>>
    /\ tty.n = 3
    /\ buffer[0] = utf8toucs4(<<195, 169>>)
    /\ \A h \in DOMAIN buffer \ {0} : buffer[h] = 32
    /\ col = 1 /\ row = 0
    /\ utf8len = 0
    /\ BytesOf(toTerm) = <<169>>


\* a character is open: its first byte was read and continuation bytes are
\* to come
OpenCharacter == utf8pos > 0 /\ utf8len > 0

\* the step stores the placeholder, the character _, in a cell
PlaceholderStored == \E h \in DOMAIN buffer : buffer'[h] = 95 /\ buffer[h] # 95

C32_Step ==
    /\ (pc = "main" /\ sbuf # <<>> /\ escape = -1 /\ OpenCharacter
           /\ Head(sbuf) = 97) =>
           PlaceholderStored /\ utf8pos' = 0 /\ utf8len' = 0
    /\ (pc = "main" /\ sbuf # <<>> /\ escape = -1 /\ OpenCharacter
           /\ Head(sbuf) \div 32 = 6) =>
           PlaceholderStored /\ utf8pos' = 1 /\ utf8len' = 1

(***************************************************************************)
(* C32: when a character is open and the byte that arrives is a letter or  *)
(* the first byte of another character, a placeholder is stored in a cell  *)
(* for the character that was not completed, and the decoder expects no    *)
(* other byte than those of what has arrived: none after a letter.         *)
(***************************************************************************)
C32_IncompleteReplaced == [][C32_Step]_vars


\* the program is about to read from the shell a control character that is
\* not ESC, backspace, newline, form feed or carriage return
Controlling ==
    /\ pc = "main" /\ sbuf # <<>>
    /\ Head(sbuf) <= 31 /\ Head(sbuf) \notin {ESCAPE, BS, NL, FF, CR}

C33_Step ==
    Controlling =>
        /\ BytesOf(toTerm') = <<Head(sbuf)>>
        /\ positionstatus' = POSITION_UNKNOWN
        /\ escape' = -1 /\ sequence' = <<>>
        /\ utf8pos' = 0 /\ utf8len' = 0

(***************************************************************************)
(* C33: a control character of the shell that is not ESC, backspace,       *)
(* newline, form feed or carriage return is written to the terminal as it  *)
(* is, the status of the position is unknown after it, the escape sequence *)
(* that was open is no more, and so is the character that was open: no     *)
(* continuation byte is expected.                                          *)
(***************************************************************************)
C33_ControlResets == [][C33_Step]_vars


(***************************************************************************)
(* The status of the position after an escape sequence of the shell.       *)
(***************************************************************************)
\* str is a whole escape sequence: ESC [ or ESC ] up to the first byte from
\* @ on, or ESC and a byte from 0 on
Completed(str) ==
    /\ Len(str) >= 2
    /\ str[1] = ESCAPE
    /\ IF str[2] \in {91, 93}
       THEN Len(str) >= 3 /\ str[Len(str)] \in 64 .. 127
       ELSE Len(str) = 2 /\ str[2] \in 48 .. 127

\* the program is about to read from the shell the last byte of an escape
\* sequence
Completing ==
    /\ pc = "main" /\ sbuf # <<>>
    /\ escape >= 1 /\ escape < SEQUENCELEN - 1
    /\ Completed(Arriving)

C34_Step ==
    /\ Completing =>
           IF Arriving[2] = 91 /\ Head(sbuf) \in {109, 75}
           THEN /\ positionstatus' = positionstatus
                /\ row' = row /\ col' = col
                /\ buffer' = buffer
           ELSE IF \/ Arriving = ASKPOSITION
                   \/ /\ PairWith(Arriving, MOVECURSORTERMINATOR)
                      /\ OnScreen(Scan2Args(Arriving).y, Scan2Args(Arriving).x)
           THEN TRUE
           ELSE positionstatus' = POSITION_UNKNOWN
    /\ (pc = "drain" /\ site = "erasecursor" /\ pc' = "main") =>
           positionstatus' = POSITION_UNKNOWN

\* C34: the last byte of an escape sequence of the shell that begins with
\* ESC [ and ends with m or K leaves the status of the position, row, col
\* and the buffer as they are; the last byte of every other sequence that
\* is not ESC [ 6 n or ESC [ y ; x H with a position of the screen leaves
\* the status unknown
C34_StatusAfterSequence == [][C34_Step]_vars

\* ESC [ m has been read with the position known after a character was
\* printed, and the position is still known
C34_Witness ==
    /\ pc = "main" /\ sbuf = <<>>
    /\ escape = -1
    /\ BytesOf(toTerm) = <<109>>
    /\ positionstatus = POSITION_KNOWN
    /\ col = 1 /\ buffer[0] = 97


(***************************************************************************)
(* The output of the shell and the history on the screen.                  *)
(***************************************************************************)
C35_Step ==
    /\ (show # origin /\ BytesOf(toTerm') # <<>>) =>
           \E j \in Views(toTerm', "showlive") :
               \A h \in Views(toTerm', "byte") : j < h
    /\ (show # origin /\ show' = origin') =>
           Views(toTerm', "showlive") # {}

\* C35: the program writes no byte of the shell to the terminal while the
\* history is on the screen: when show # origin the screen is painted again
\* before the byte is written; and show goes back to origin only in a step
\* that paints the screen again; this in every interleaving, also when a
\* scroll key arrives while knowposition() waits for the terminal
C35_NoOutputOverHistory == [][C35_Step]_vars


(***************************************************************************)
(* C36: when the status of the position is known, row and col are the row  *)
(* and the column of the cursor of the terminal after the bytes written to *)
(* it so far (the column after the last when the terminal has printed in   *)
(* the last column and not yet wrapped); an answer of the terminal read    *)
(* after knowposition() gave up does not make known a position that is no  *)
(* more that of the cursor.                                                *)
(***************************************************************************)
C36_KnownIsReal ==
    positionstatus = POSITION_KNOWN =>
        /\ row = tty.y
        /\ col = tty.x + (IF tty.need_wrap THEN 1 ELSE 0)


C37_Step ==
    \A c \in {BS, DEL} :
        Taking(c) =>
            /\ \A h \in DOMAIN buffer : buffer'[h] \in {buffer[h], 32}
            /\ col' <= col
            /\ IF col > 0
               THEN /\ col' = col - 1
                    /\ buffer' = [buffer EXCEPT
                           ![(buffersize + CursorCell - 1) % buffersize] = 32]
               ELSE col' = col /\ buffer' = buffer

(***************************************************************************)
(* C37: backspace and delete from the shell store no control code in the   *)
(* buffer and do not increase col: with col > 0 col is one less and the    *)
(* cell on the left of the cursor is blank, with col = 0 col and the       *)
(* buffer are as they were.                                                *)
(***************************************************************************)
C37_BackspaceMovesLeft == [][C37_Step]_vars


C38_Step ==
    \A c \in 248 .. 255 :
        Taking(c) => buffer' = buffer /\ col' = col

(***************************************************************************)
(* C38: every cell of the buffer holds a byte of ASCII or the value, at    *)
(* most 0x10FFFF, decoded from a whole sequence of UTF-8; a byte from 0xF8 *)
(* to 0xFF, that begins no character, and a decoding that fails store      *)
(* nothing and do not move the cursor.                                     *)
(***************************************************************************)
C38_CellsAreCharacters ==
    /\ [](\A h \in DOMAIN buffer : buffer[h] \in 0 .. 1114111)
    /\ [][C38_Step]_vars


C40_Step ==
    /\ (tin' = scrollup /\ special = -1) =>
           /\ show' <= show
           /\ (show = origin /\ origin > 0) => show' < origin'
    /\ (tin' = scrolldown /\ special = -1) =>
           show <= show' /\ show' <= origin'

(***************************************************************************)
(* C40: the number of lines the keys scroll by is at least 1, without the  *)
(* option -l and with every argument of it the program starts with, so     *)
(* that the scroll up key moves the view back, out of the screen of the    *)
(* shell if there is history, and the scroll down key moves it forward and *)
(* not past origin.                                                        *)
(***************************************************************************)
C40_ScrollStepPositive ==
    /\ [](pc \in {"main", "drain"} => Cur.lines >= 1)
    /\ [][C40_Step]_vars


(***************************************************************************)
(* The wait of knowposition() and the rest of the program.                 *)
(***************************************************************************)
\* what shelltoterminal() keeps between its calls, and the bytes of the
\* shell it has yet to process
Outbound == <<sbuf, escape, sequence, utf8, utf8pos, utf8len>>

\* what terminaltoshell() keeps between its calls
Inbound == <<special, specialsequence>>

C39_Step ==
    /\ pc \in {"main", "drain"} /\ pc' \in {"main", "drain"}
    /\ pc = "drain" => i <= 4 /\ sbuf # <<>> /\ site # "none"
    /\ (pc = "drain" /\ pc' = "drain") =>
           /\ Outbound' = Outbound
           /\ site' = site
           /\ i' = i + 1
           /\ Views(toTerm', "byte") = {}
           /\ Views(toTerm', "ASKPOSITION") = {}
    /\ (pc = "main" /\ pc' = "drain") =>
           /\ sbuf # <<>> /\ tin' = <<>>
           /\ Inbound' = Inbound
    /\ Inbound' # Inbound => (tin' # <<>> /\ Outbound' = Outbound)

\* C39: while knowposition() waits (the program is in shelltoterminal(),
\* called by the main loop, and no deeper), the calls of exchange() it
\* makes, four at most, read the terminal only: they do not call
\* shelltoterminal(), whose state and whose bytes to process are as they
\* were, and write no query of their own; the wait is entered only from
\* shelltoterminal(), and the sequence of the terminal that
\* terminaltoshell() collects changes only in a step that reads the
\* terminal, where nothing of shelltoterminal() changes
C39_DrainReadsTerminalOnly == [][C39_Step]_vars

\* the main loop has read ESC [ from the terminal, and the byte that ends
\* the sequence has been read while knowposition() waits
C39_Witness ==
    /\ pc = "drain"
    /\ tin = <<97>>
    /\ toShell = <<27, 91, 97>>
    /\ special = -1
    /\ sbuf # <<>>

=============================================================================
